---- MODULE Spec2Model ----
(***************************************************************************)
(* Model of the Plex naming pipeline of StreamingCommunity                 *)
(* (StreamingCommunity/Util/plex_naming.py): classification of a          *)
(* downloaded file, attribute extraction, catalog (TMDB) enrichment, path  *)
(* generation and relocation on the file system.                           *)
(*                                                                         *)
(* Paths, file names and titles are TLA+ strings handled character by      *)
(* character; every regular expression of the source is an operator that   *)
(* gives, for a position of the subject, the length of the match that      *)
(* starts there (-1 when there is none).                                   *)
(***************************************************************************)
EXTENDS Integers, Sequences, FiniteSets, TLC

-----------------------------------------------------------------------------
(* Characters and Python str / re primitives                               *)

LowerLetters == "abcdefghijklmnopqrstuvwxyz"
UpperLetters == "ABCDEFGHIJKLMNOPQRSTUVWXYZ"
DigitChars == "0123456789"

Ch(s, i) == IF i >= 1 /\ i <= Len(s) THEN SubSeq(s, i, i) ELSE ""

CharsOf(s) == {SubSeq(s, i, i) : i \in 1..Len(s)}

LowerSet == CharsOf(LowerLetters)
DigitSet == CharsOf(DigitChars)

IsDigit(c) == c \in DigitSet
\* \w of Python's re on str: letters, digits and the underscore
LowerCh(c) ==
    IF \E k \in 1..26 : SubSeq(UpperLetters, k, k) = c
    THEN LET i == CHOOSE k \in 1..26 : SubSeq(UpperLetters, k, k) = c
         IN SubSeq(LowerLetters, i, i)
    ELSE c

\* \w of Python's re on str: letters, digits and the underscore
IsWord(c) == LowerCh(c) \in LowerSet \cup DigitSet \cup {"_"}

RECURSIVE LowerFrom(_, _)
LowerFrom(s, i) == IF i > Len(s) THEN "" ELSE LowerCh(Ch(s, i)) \o LowerFrom(s, i + 1)
\* str.lower()
Lower(s) == LowerFrom(s, 1)

StartsAt(s, i, sub) == i + Len(sub) - 1 <= Len(s) /\ SubSeq(s, i, i + Len(sub) - 1) = sub
\* the operator `sub in s`
Contains(s, sub) == \E i \in 1..(Len(s) + 1) : StartsAt(s, i, sub)

\* Length of the longest run of characters of class cls starting at i
RECURSIVE RunLen(_, _, _)
RunLen(s, i, cls) == IF i <= Len(s) /\ Ch(s, i) \in cls THEN 1 + RunLen(s, i + 1, cls) ELSE 0

SepSet == {"-", " ", "_"}
SpaceSet == {" "}

\* re.sub(pattern, repl, s): ml[i] is the length of the match of the pattern
\* at position i, or -1; matches are taken leftmost and do not overlap.
RECURSIVE ReSubFrom(_, _, _, _)
ReSubFrom(ml, s, repl, i) ==
    IF i > Len(s) THEN ""
    ELSE IF ml[i] > 0 THEN repl \o ReSubFrom(ml, s, repl, i + ml[i])
    ELSE Ch(s, i) \o ReSubFrom(ml, s, repl, i + 1)
ReSub(ml, s, repl) == ReSubFrom(ml, s, repl, 1)

\* re.search: position of the leftmost match, 0 when there is none
ReSearch(ml, s) ==
    IF \E i \in 1..(Len(s) + 1) : ml[i] >= 0
    THEN CHOOSE i \in 1..(Len(s) + 1) : ml[i] >= 0 /\ \A j \in 1..(i - 1) : ml[j] < 0
    ELSE 0

\* str.replace(old, new) for a non-empty old
RECURSIVE ReplaceFrom(_, _, _, _)
ReplaceFrom(s, old, new, i) ==
    IF i > Len(s) THEN ""
    ELSE IF StartsAt(s, i, old) THEN new \o ReplaceFrom(s, old, new, i + Len(old))
    ELSE Ch(s, i) \o ReplaceFrom(s, old, new, i + 1)
Replace(s, old, new) == ReplaceFrom(s, old, new, 1)

\* str.strip() and str.lstrip(chars)
RECURSIVE LStripSet(_, _)
LStripSet(s, cls) ==
    IF Len(s) > 0 /\ Ch(s, 1) \in cls THEN LStripSet(SubSeq(s, 2, Len(s)), cls) ELSE s
RECURSIVE RStripSet(_, _)
RStripSet(s, cls) ==
    IF Len(s) > 0 /\ Ch(s, Len(s)) \in cls THEN RStripSet(SubSeq(s, 1, Len(s) - 1), cls) ELSE s
Strip(s) == RStripSet(LStripSet(s, SpaceSet), SpaceSet)

\* re.sub(r'\s+', ' ', s)
CollapseSpaces(s) ==
    ReSub([i \in 1..(Len(s) + 1) |->
             IF RunLen(s, i, SpaceSet) > 0 THEN RunLen(s, i, SpaceSet) ELSE -1], s, " ")

\* re.sub(r'[^\w\s]', ' ', s)
PunctToSpace(s) ==
    ReSub([i \in 1..(Len(s) + 1) |->
             IF i <= Len(s) /\ ~IsWord(Ch(s, i)) /\ Ch(s, i) # " " THEN 1 ELSE -1], s, " ")

\* str.split(sep) for a one-character sep
RECURSIVE SplitFrom(_, _, _, _)
SplitFrom(s, sep, i, start) ==
    IF i > Len(s) THEN <<SubSeq(s, start, Len(s))>>
    ELSE IF Ch(s, i) = sep
         THEN <<SubSeq(s, start, i - 1)>> \o SplitFrom(s, sep, i + 1, i + 1)
         ELSE SplitFrom(s, sep, i + 1, start)
Split(s, sep) == SplitFrom(s, sep, 1, 1)

\* str.split() on white space: the non-empty words
Words(s) == SelectSeq(Split(s, " "), LAMBDA w : w # "")

RECURSIVE JoinWith(_, _)
JoinWith(parts, sep) ==
    IF Len(parts) = 0 THEN ""
    ELSE IF Len(parts) = 1 THEN parts[1]
    ELSE parts[1] \o sep \o JoinWith(Tail(parts), sep)

\* int(str) of a string of decimal digits
RECURSIVE StrToIntAcc(_, _, _)
StrToIntAcc(s, i, acc) ==
    IF i > Len(s) THEN acc
    ELSE StrToIntAcc(s, i + 1,
             acc * 10 + (CHOOSE k \in 0..9 : SubSeq(DigitChars, k + 1, k + 1) = Ch(s, i)))
StrToInt(s) == StrToIntAcc(s, 1, 0)

\* str(n) for n >= 0
RECURSIVE IntToStr(_)
IntToStr(n) ==
    IF n < 10 THEN SubSeq(DigitChars, n + 1, n + 1)
    ELSE IntToStr(n \div 10) \o SubSeq(DigitChars, (n % 10) + 1, (n % 10) + 1)

\* the format {n:02d} for n >= 0
Format02d(n) == IF n < 10 THEN "0" \o IntToStr(n) ELSE IntToStr(n)

-----------------------------------------------------------------------------
(* os.path                                                                 *)

Sep == "/"

\* position of the last occurrence of c in s, 0 when absent
LastIndexOf(s, c) ==
    IF \E i \in 1..Len(s) : Ch(s, i) = c
    THEN CHOOSE i \in 1..Len(s) : Ch(s, i) = c /\ \A j \in (i + 1)..Len(s) : Ch(s, j) # c
    ELSE 0

Basename(p) == SubSeq(p, LastIndexOf(p, Sep) + 1, Len(p))

Dirname(p) ==
    LET k == LastIndexOf(p, Sep)
        head == SubSeq(p, 1, k)
    IN IF k = 0 THEN ""
       ELSE IF RStripSet(head, {Sep}) = "" THEN head
       ELSE RStripSet(head, {Sep})

\* os.path.join(a, b) for a relative b
PathJoin(a, b) ==
    IF a = "" THEN b
    ELSE IF Ch(a, Len(a)) = Sep THEN a \o b
    ELSE a \o Sep \o b

\* os.path.splitext on the last component: the extension starts at the last
\* dot that is not one of the leading dots of the component
SplitExtPos(p) ==
    LET base == Basename(p)
        off == Len(p) - Len(base)
        k == LastIndexOf(base, ".")
        lead == RunLen(base, 1, {"."})
    IN IF k > lead THEN off + k ELSE Len(p) + 1
SplitExtRoot(p) == SubSeq(p, 1, SplitExtPos(p) - 1)
SplitExtExt(p) == SubSeq(p, SplitExtPos(p), Len(p))

\* os.path.normpath of an absolute POSIX path: empty and "." components are
\* dropped, ".." removes the component before it
RECURSIVE NormParts(_, _)
NormParts(parts, acc) ==
    IF Len(parts) = 0 THEN acc
    ELSE IF Head(parts) \in {"", "."} THEN NormParts(Tail(parts), acc)
    ELSE IF Head(parts) = ".."
         THEN NormParts(Tail(parts), IF Len(acc) > 0 THEN SubSeq(acc, 1, Len(acc) - 1) ELSE acc)
    ELSE NormParts(Tail(parts), Append(acc, Head(parts)))
NormPath(p) ==
    IF p = "" THEN "."
    ELSE IF Ch(p, 1) = Sep THEN Sep \o JoinWith(NormParts(Split(p, Sep), <<>>), Sep)
    ELSE LET q == JoinWith(NormParts(Split(p, Sep), <<>>), Sep) IN IF q = "" THEN "." ELSE q

-----------------------------------------------------------------------------
(* The regular expressions of plex_naming.py.  Each XxxLen(s, i) is the    *)
(* length of the match of the pattern at position i of s, -1 if none.      *)

Sub(s, a, b) == IF a > Len(s) \/ b < a THEN "" ELSE SubSeq(s, a, IF b > Len(s) THEN Len(s) ELSE b)
DigitsRun(s, i) == RunLen(s, i, DigitSet)
Positions(s) == 1..(Len(s) + 1)

\* the tail (?:_|$|[-\s]) at position j
TermLen(s, j) ==
    IF Ch(s, j) = "_" THEN 1
    ELSE IF j = Len(s) + 1 THEN 0
    ELSE IF Ch(s, j) \in {"-", " "} THEN 1
    ELSE -1

\* (?i)[-_\s](ita|eng|sub|dub)(?:bed)?(?:_|$|[-\s])   (ls is lower-cased)
LangTagLen(ls, i) ==
    IF Ch(ls, i) \in {"-", "_", " "} /\ Sub(ls, i + 1, i + 3) \in {"ita", "eng", "sub", "dub"}
    THEN IF StartsAt(ls, i + 4, "bed") /\ TermLen(ls, i + 7) >= 0 THEN 7 + TermLen(ls, i + 7)
         ELSE IF TermLen(ls, i + 4) >= 0 THEN 4 + TermLen(ls, i + 4)
         ELSE -1
    ELSE -1
RemoveLangTags(s) == LET ls == Lower(s) IN ReSub([i \in Positions(s) |-> LangTagLen(ls, i)], s, "")

\* \.(mp4|avi|mkv|mov)$
MediaExtLen(s, i) ==
    IF i + 3 = Len(s) /\ Ch(s, i) = "." /\ Sub(s, i + 1, i + 3) \in {"mp4", "avi", "mkv", "mov"}
    THEN 4 ELSE -1

\* s\d+e\d+
SxxExxLen(s, i) ==
    LET d1 == DigitsRun(s, i + 1)
        d2 == DigitsRun(s, i + 2 + d1)
    IN IF Ch(s, i) = "s" /\ d1 > 0 /\ Ch(s, i + 1 + d1) = "e" /\ d2 > 0 THEN 2 + d1 + d2
       ELSE -1

\* (19|20)\d{2}
CenturyYearLen(s, i) ==
    IF Sub(s, i, i + 1) \in {"19", "20"} /\ DigitsRun(s, i + 2) >= 2 THEN 4 ELSE -1

\* [-_]([a-z]{2,3})(?:_|$|[-\s]) : number of letters of group 1, -1 if no match
LanguageLetters(s, i) ==
    LET n == RunLen(s, i + 1, LowerSet)
    IN IF Ch(s, i) \notin {"-", "_"} THEN -1
       ELSE IF n >= 3 /\ TermLen(s, i + 4) >= 0 THEN 3
       ELSE IF n >= 2 /\ TermLen(s, i + 3) >= 0 THEN 2
       ELSE -1

\* [Ss](?:eason|tagione)?[-\s_]*(\d+) : <<start of group 1, length of group 1>>
\* for the match at i, <<0, -1>> if none
SeasonGroup(s, i) ==
    LET Try(j) == LET k == j + RunLen(s, j, SepSet)
                  IN IF DigitsRun(s, k) > 0 THEN <<k, DigitsRun(s, k)>> ELSE <<0, -1>>
        word == IF StartsAt(s, i + 1, "eason") THEN 5
                ELSE IF StartsAt(s, i + 1, "tagione") THEN 7 ELSE 0
    IN IF Ch(s, i) \notin {"S", "s"} THEN <<0, -1>>
       ELSE IF word > 0 /\ Try(i + 1 + word)[2] > 0 THEN Try(i + 1 + word)
       ELSE Try(i + 1)
SeasonLen(s, i) ==
    LET g == SeasonGroup(s, i) IN IF g[2] < 0 THEN -1 ELSE g[1] + g[2] - i

\* The six episode patterns, as <<start of group 1, length of group 1>>.
\* icase is re.IGNORECASE, used when the patterns delete the episode.
EpGroup(n, s, i, icase) ==
    LET c(j) == IF icase THEN LowerCh(Ch(s, j)) ELSE Ch(s, j)
        lit(j, w) == IF icase THEN Lower(Sub(s, j, j + Len(w) - 1)) = Lower(w) ELSE StartsAt(s, j, w)
        none == <<0, -1>>
        digitsAt(k) == IF DigitsRun(s, k) > 0 THEN <<k, DigitsRun(s, k)>> ELSE none
        afterSeps(j) == digitsAt(j + RunLen(s, j, SepSet))
        afterSpaces(j) == digitsAt(j + RunLen(s, j, SpaceSet))
    IN CASE n = 1 ->      \* [Ee][Pp]?[-\s_]*(\d+)
              IF LowerCh(Ch(s, i)) # "e" THEN none
              ELSE IF LowerCh(Ch(s, i + 1)) = "p" /\ afterSeps(i + 2)[2] > 0 THEN afterSeps(i + 2)
              ELSE afterSeps(i + 1)
         [] n = 2 ->      \* _EP_(\d+)
              IF lit(i, "_EP_") THEN digitsAt(i + 4) ELSE none
         [] n = 3 ->      \* [-\s_](\d{1,3})(?:[-\s_]|$)
              LET d == DigitsRun(s, i + 1)
              IN IF Ch(s, i) \in SepSet /\ d >= 1 /\ d <= 3
                    /\ (i + 1 + d = Len(s) + 1 \/ Ch(s, i + 1 + d) \in SepSet)
                 THEN <<i + 1, d>> ELSE none
         [] n = 4 ->      \* Ep(?:isode)?\s*(\d+)
              IF ~lit(i, "Ep") THEN none
              ELSE IF lit(i + 2, "isode") /\ afterSpaces(i + 7)[2] > 0 THEN afterSpaces(i + 7)
              ELSE afterSpaces(i + 2)
         [] n = 5 ->      \* Episodio\s*(\d+)
              IF lit(i, "Episodio") THEN afterSpaces(i + 8) ELSE none
         [] n = 6 ->      \* #(\d+)
              IF Ch(s, i) = "#" THEN digitsAt(i + 1) ELSE none
EpLen(n, s, i, icase) ==
    LET g == EpGroup(n, s, i, icase) IN IF g[2] < 0 THEN -1 ELSE g[1] + g[2] - i

\* \s*\([12][0-9]{3}\)
ParenYearLen(s, i) ==
    LET k == i + RunLen(s, i, SpaceSet)
    IN IF Ch(s, k) = "(" /\ Ch(s, k + 1) \in {"1", "2"} /\ DigitsRun(s, k + 2) >= 3
          /\ Ch(s, k + 5) = ")"
       THEN k + 6 - i ELSE -1

\* \s*\([^)]+\)
ParenTagLen(s, i) ==
    LET k == i + RunLen(s, i, SpaceSet)
        n == RunLen(s, k + 1, CharsOf(s) \ {")"})
    IN IF Ch(s, k) = "(" /\ n >= 1 /\ Ch(s, k + 1 + n) = ")" THEN k + n + 2 - i ELSE -1

\* \((\d{4})\)
ParenFourDigitsLen(s, i) ==
    IF Ch(s, i) = "(" /\ DigitsRun(s, i + 1) = 4 /\ Ch(s, i + 5) = ")" THEN 6 ELSE -1

\* (?:\s|_|\()(\d{4})(?:\s|_|\))
DelimitedYearLen(s, i) ==
    IF Ch(s, i) \in {" ", "_", "("} /\ DigitsRun(s, i + 1) >= 4 /\ Ch(s, i + 5) \in {" ", "_", ")"}
    THEN 6 ELSE -1

\* ^[Ss]\d+$|^Season\s*\d+$   (re.match)
IsSeasonMarker(s) ==
    \/ Ch(s, 1) \in {"S", "s"} /\ Len(s) >= 2 /\ DigitsRun(s, 2) = Len(s) - 1
    \/ /\ StartsAt(s, 1, "Season")
       /\ LET k == 7 + RunLen(s, 7, SpaceSet)
          IN DigitsRun(s, k) > 0 /\ k + DigitsRun(s, k) = Len(s) + 1

\* [-_]<language>(?:_|$|[-\s])   with re.IGNORECASE
LangSuffixLen(ls, lang, i) ==
    IF Ch(ls, i) \in {"-", "_"} /\ StartsAt(ls, i + 1, Lower(lang))
       /\ TermLen(ls, i + 1 + Len(lang)) >= 0
    THEN 1 + Len(lang) + TermLen(ls, i + 1 + Len(lang)) ELSE -1
RemoveLangSuffix(s, lang) ==
    LET ls == Lower(s) IN ReSub([i \in Positions(s) |-> LangSuffixLen(ls, lang, i)], s, "")

\* \([^)]*<language>[^)]*\)   with re.IGNORECASE
LangParenLen(ls, lang, i) ==
    LET n == RunLen(ls, i + 1, CharsOf(ls) \ {")"})
    IN IF Ch(ls, i) = "(" /\ Ch(ls, i + 1 + n) = ")"
          /\ Contains(Sub(ls, i + 1, i + n), Lower(lang))
       THEN n + 2 ELSE -1
RemoveLangParen(s, lang) ==
    LET ls == Lower(s) IN ReSub([i \in Positions(s) |-> LangParenLen(ls, lang, i)], s, "")

\* re.sub(r'[^\w\s()]', ' ', s)
PunctToSpaceKeepParens(s) ==
    ReSub([i \in Positions(s) |->
             IF i <= Len(s) /\ ~IsWord(Ch(s, i)) /\ Ch(s, i) # " " /\ Ch(s, i) \notin {"(", ")"}
             THEN 1 ELSE -1], s, " ")

-----------------------------------------------------------------------------
(* Values shared by the pipeline                                           *)

\* Python's None for a string field and for an integer field
None == "<None>"
NoneInt == -1
\* a media_type dict without the key 'tmdb_id'
NoId == 0

IsTruthyStr(v) == v # None /\ v # ""

MediaType(t, id) ==
    [type |-> t,
     is_series |-> t \in {"series", "anime_series"},
     is_anime |-> t \in {"anime_movie", "anime_series"},
     tmdb_id |-> id]
\* the value None returned in place of a media_type dict
NoMediaType == [type |-> "none", is_series |-> FALSE, is_anime |-> FALSE, tmdb_id |-> NoId]

Request(ep, q) == [ep |-> ep, q |-> q]

-----------------------------------------------------------------------------
(* PlexNaming._identify_media_type_via_tmdb                                *)

\* A search answer is an exception, an empty result list or a list whose top
\* hit has an id and a popularity; a detail or keyword answer is an exception
\* or a record that does ("anime") or does not ("plain") carry an anime mark.
IsHit(r) == r.st = "hit"

IdentifyQuery(title, year) ==
    LET t1 == RemoveLangTags(title)
        t2 == Replace(Replace(t1, "-", " "), "_", " ")
        t3 == Strip(CollapseSpaces(t2))
    IN IF year # None THEN t3 \o " " \o year ELSE t3

RescueQuery(title, year) ==
    LET t1 == Replace(Replace(Replace(title, ".", " "), "-", " "), "_", " ")
        t2 == Strip(CollapseSpaces(t1))
    IN IF year # None THEN t2 \o " " \o year ELSE t2

\* a variant whose emergency search files its hit as a series
IdentifyRescueAsSeries(rescue_query, cat, reqs) ==
    LET rq == Append(reqs, Request("search/movie", rescue_query))
    IN IF IsHit(cat.rescue) THEN [mt |-> MediaType("series", cat.rescue.id), reqs |-> rq]
       ELSE [mt |-> NoMediaType, reqs |-> rq]
\* the except branch: one more movie search, whose top hit makes a movie
IdentifyRescue(rescue_query, cat, reqs) ==
    LET rq == Append(reqs, Request("search/movie", rescue_query))
    IN IF IsHit(cat.rescue) THEN [mt |-> MediaType("movie", cat.rescue.id), reqs |-> rq]
       ELSE [mt |-> NoMediaType, reqs |-> rq]

\* a variant that prefers the movie hit whenever the movie search has one
IdentifyMediaTypeViaTmdbMovieFirst(q, rescue_query, cat) ==
    LET r1 == <<Request("search/movie", q)>>
        r2 == Append(r1, Request("search/tv", q))
        is_series == ~IsHit(cat.movie) /\ IsHit(cat.tv)
        result == IF is_series THEN cat.tv ELSE cat.movie
        kind == IF is_series THEN "tv/" ELSE "movie/"
        r3 == Append(r2, Request(kind \o IntToStr(result.id), ""))
        r4 == Append(r3, Request(kind \o IntToStr(result.id) \o "/keywords", ""))
        is_anime == cat.detail = "anime" \/ cat.kw = "anime"
        t == IF is_anime THEN (IF is_series THEN "anime_series" ELSE "anime_movie")
             ELSE (IF is_series THEN "series" ELSE "movie")
    IN IF cat.movie.st = "exc" THEN IdentifyRescue(rescue_query, cat, r1)
       ELSE IF cat.tv.st = "exc" THEN IdentifyRescue(rescue_query, cat, r2)
       ELSE IF ~IsHit(cat.movie) /\ ~IsHit(cat.tv) THEN [mt |-> NoMediaType, reqs |-> r2]
       ELSE IF cat.detail = "exc" THEN IdentifyRescue(rescue_query, cat, r3)
       ELSE IF cat.kw = "exc" THEN IdentifyRescue(rescue_query, cat, r4)
       ELSE [mt |-> MediaType(t, result.id), reqs |-> r4]
\* The body of the method once its two query strings are built; tv wins only
\* with a strictly higher popularity of its top hit.
IdentifyMediaTypeViaTmdb(q, rescue_query, cat) ==
    LET r1 == <<Request("search/movie", q)>>
        r2 == Append(r1, Request("search/tv", q))
        is_series == IF IsHit(cat.movie) /\ IsHit(cat.tv) THEN cat.tv.pop > cat.movie.pop
                     ELSE IsHit(cat.tv)
        result == IF is_series THEN cat.tv ELSE cat.movie
        kind == IF is_series THEN "tv/" ELSE "movie/"
        r3 == Append(r2, Request(kind \o IntToStr(result.id), ""))
        r4 == Append(r3, Request(kind \o IntToStr(result.id) \o "/keywords", ""))
        is_anime == cat.detail = "anime" \/ cat.kw = "anime"
        t == IF is_anime THEN (IF is_series THEN "anime_series" ELSE "anime_movie")
             ELSE (IF is_series THEN "series" ELSE "movie")
    IN IF cat.movie.st = "exc" THEN IdentifyRescue(rescue_query, cat, r1)
       ELSE IF cat.tv.st = "exc" THEN IdentifyRescue(rescue_query, cat, r2)
       ELSE IF ~IsHit(cat.movie) /\ ~IsHit(cat.tv) THEN [mt |-> NoMediaType, reqs |-> r2]
       ELSE IF cat.detail = "exc" THEN IdentifyRescue(rescue_query, cat, r3)
       ELSE IF cat.kw = "exc" THEN IdentifyRescue(rescue_query, cat, r4)
       ELSE [mt |-> MediaType(t, result.id), reqs |-> r4]

-----------------------------------------------------------------------------
(* PlexNaming._determine_media_type                                        *)

anime_keywords == {"anime", "japan", "jap", "jpn"}

anime_series_names ==
    {"demon slayer", "one piece", "naruto", "attack on titan", "boku no hero", "my hero",
     "dragon ball", "hunter x hunter", "death note", "sword art", "fullmetal",
     "jujutsu kaisen", "pokemon", "digimon", "bleach", "chainsaw man"}

anime_movie_names ==
    {"your name", "weathering with you", "spirited away", "princess mononoke",
     "howl moving castle", "akira", "ghost in the shell", "a silent voice",
     "grave of the fireflies", "my neighbor totoro", "promare", "jujutsu kaisen 0"}

NormalizedFilename(file_name) ==
    Lower(Replace(Replace(Replace(Replace(file_name, "-", ""), "_", ""), ".", ""), " ", ""))

IsKnownName(file_name, names) ==
    LET nf == NormalizedFilename(file_name)
    IN \E name \in names : Contains(nf, Replace(name, " ", ""))

\* The rule on the configured folders: the category, or "none" when the rule
\* does not decide.
RootPathRule(c, normalized_path) ==
    IF ~Contains(normalized_path, c.root_path) THEN "none"
    ELSE LET relative_path == LStripSet(Replace(normalized_path, c.root_path, ""), {Sep})
             all == Split(relative_path, Sep)
             parts == IF c.add_site_name THEN Tail(all) ELSE all
         IN IF Len(parts) = 0 THEN "none"
            ELSE IF parts[1] = c.film_folder THEN "movie"
            ELSE IF parts[1] = c.serie_folder THEN "series"
            ELSE IF parts[1] = c.anime_folder
                 THEN IF Len(parts) > 1
                      THEN IF Lower(parts[2]) = "film" THEN "anime_movie"
                           ELSE IF Lower(parts[2]) = "serie" THEN "anime_series"
                           ELSE "none"
                      ELSE "anime_series"
            ELSE "none"

PossibleTitle(file_path) ==
    LET t0 == Lower(Basename(file_path))
        t1 == ReSub([i \in Positions(t0) |-> MediaExtLen(t0, i)], t0, "")
        t2 == ReSub([i \in Positions(t1) |-> SxxExxLen(t1, i)], t1, "")
        t3 == RemoveLangTags(t2)
        t4 == Replace(Replace(Replace(t3, ".", " "), "-", " "), "_", " ")
    IN Strip(CollapseSpaces(t4))

PossibleYear(file_name) ==
    LET p == ReSearch([i \in Positions(file_name) |-> CenturyYearLen(file_name, i)], file_name)
    IN IF p = 0 THEN None ELSE Sub(file_name, p, p + 3)

\* a variant that gives up when no cue matches
FallbackTypeUndetermined(is_anime_movie, is_anime, is_series) ==
    IF is_anime_movie THEN "anime_movie"
    ELSE IF is_anime THEN (IF is_series THEN "anime_series" ELSE "anime_movie")
    ELSE IF is_series THEN "series"
    ELSE "none"

\* the heuristic fallback after the catalog gave nothing
FallbackType(is_anime_movie, is_anime, is_series) ==
    IF is_anime_movie THEN "anime_movie"
    ELSE IF is_anime THEN (IF is_series THEN "anime_series" ELSE "anime_movie")
    ELSE IF is_series THEN "series"
    ELSE "movie"

\* What _determine_media_type reads off the path before any catalog call
PathSignals(c, file_path) ==
    LET normalized_path == NormPath(file_path)
        file_name == Lower(Basename(normalized_path))
        path_lower == Lower(normalized_path)
    IN [is_anime_movie |-> IsKnownName(file_name, anime_movie_names),
        is_anime_series |-> IsKnownName(file_name, anime_series_names),
        is_anime_path |-> Contains(path_lower, "/anime/") \/ Contains(path_lower, "/anime\\"),
        is_anime_name |-> \E k \in anime_keywords : Contains(path_lower, k),
        is_series_path |-> \E k \in {"/serie/", "/series/", "/serie\\", "/series\\"} :
                               Contains(path_lower, k),
        is_series_name |-> \E k \in {"s01", "s02", "stagione", "season", "_ep_", "episodio",
                                  "episode"} : Contains(file_name, k),
        rule |-> RootPathRule(c, normalized_path),
        query |-> IdentifyQuery(PossibleTitle(file_path), PossibleYear(file_name)),
        rescue_query |-> RescueQuery(PossibleTitle(file_path), PossibleYear(file_name))]

\* The result is the media_type dict and the catalog requests issued.
DetermineMediaType(sig, cat) ==
    LET tmdb == IdentifyMediaTypeViaTmdb(sig.query, sig.rescue_query, cat)
    IN IF sig.is_anime_movie THEN [mt |-> MediaType("anime_movie", NoId), reqs |-> <<>>]
       ELSE IF sig.rule # "none" THEN [mt |-> MediaType(sig.rule, NoId), reqs |-> <<>>]
       ELSE IF tmdb.mt.type # "none" THEN tmdb
       ELSE [mt |-> MediaType(FallbackType(sig.is_anime_movie,
                                  sig.is_anime_path \/ sig.is_anime_name \/ sig.is_anime_series,
                                  sig.is_series_path \/ sig.is_series_name), NoId),
             reqs |-> tmdb.reqs]

-----------------------------------------------------------------------------
(* PlexNaming._extract_file_info                                           *)


ExtractLanguage(name_without_ext) ==
    LET l == Lower(name_without_ext)
        p == ReSearch([i \in Positions(l) |-> LanguageLetters(l, i)], l)
    IN IF p = 0 THEN None ELSE Sub(l, p + 1, p + LanguageLetters(l, p))

\* int(group(1)) of the first match of the season pattern, NoneInt if none
SearchSeason(s) ==
    LET p == ReSearch([i \in Positions(s) |-> SeasonLen(s, i)], s)
        g == SeasonGroup(s, p)
    IN IF p = 0 THEN NoneInt ELSE StrToInt(Sub(s, g[1], g[1] + g[2] - 1))

\* a variant without the default season of an anime
ExtractSeasonNoDefault(parent_dir, name_without_ext, is_anime) ==
    IF SearchSeason(parent_dir) # NoneInt THEN SearchSeason(parent_dir)
    ELSE SearchSeason(name_without_ext)
ExtractSeason(parent_dir, name_without_ext, is_anime) ==
    IF SearchSeason(parent_dir) # NoneInt THEN SearchSeason(parent_dir)
    ELSE IF SearchSeason(name_without_ext) # NoneInt THEN SearchSeason(name_without_ext)
    ELSE IF is_anime THEN 1
    ELSE NoneInt

SearchEpisode(n, s) ==
    LET p == ReSearch([i \in Positions(s) |-> EpLen(n, s, i, FALSE)], s)
        g == EpGroup(n, s, p, FALSE)
    IN IF p = 0 THEN NoneInt ELSE StrToInt(Sub(s, g[1], g[1] + g[2] - 1))

\* ep_patterns are tried in order, the first that matches gives the episode
RECURSIVE ExtractEpisodeFrom(_, _)
ExtractEpisodeFrom(n, s) ==
    IF n > 6 THEN NoneInt
    ELSE IF SearchEpisode(n, s) # NoneInt THEN SearchEpisode(n, s)
    ELSE ExtractEpisodeFrom(n + 1, s)

MovieTitleFromName(name_without_ext) ==
    LET t1 == ReSub([i \in Positions(name_without_ext) |-> ParenYearLen(name_without_ext, i)],
                    name_without_ext, "")
        t2 == ReSub([i \in Positions(t1) |-> ParenTagLen(t1, i)], t1, "")
    IN Strip(t2)

RemoveEpisode(n, s) == ReSub([i \in Positions(s) |-> EpLen(n, s, i, TRUE)], s, "")

RemoveEpisodes(episode, s) ==
    IF episode # NoneInt
    THEN RemoveEpisode(6, RemoveEpisode(5, RemoveEpisode(4, RemoveEpisode(2, RemoveEpisode(1, s)))))
    ELSE s
RemoveSeasonOf(season, s) ==
    IF season # NoneInt THEN ReSub([i \in Positions(s) |-> SeasonLen(s, i)], s, "") ELSE s
RemoveLanguageOf(language, s) == IF IsTruthyStr(language) THEN RemoveLangSuffix(s, language) ELSE s

SeriesTitleFromName(name_without_ext, season, episode, language) ==
    Strip(CollapseSpaces(PunctToSpace(Replace(Replace(
        RemoveLanguageOf(language, RemoveSeasonOf(season, RemoveEpisodes(episode, name_without_ext))),
        "_", " "), "-", " "))))

\* index of the first path part named serie or anime, 0 if none
SerieIndex(parts) ==
    IF \E i \in 1..Len(parts) : Lower(parts[i]) \in {"serie", "anime"}
    THEN CHOOSE i \in 1..Len(parts) :
            /\ Lower(parts[i]) \in {"serie", "anime"}
            /\ \A j \in 1..(i - 1) : Lower(parts[j]) \notin {"serie", "anime"}
    ELSE 0

SeriesTitleFromPath(file_path, parent_dir) ==
    LET parts == Split(file_path, Sep)
        k == SerieIndex(parts)
    IN IF k # 0 /\ k + 1 <= Len(parts)
       THEN IF ~IsSeasonMarker(parts[k + 1]) THEN parts[k + 1]
            ELSE IF k + 2 <= Len(parts) THEN parts[k + 1]
            ELSE parent_dir
       ELSE parent_dir

ExtractYear(parent_dir, name_without_ext) ==
    LET p == ReSearch([i \in Positions(parent_dir) |-> ParenFourDigitsLen(parent_dir, i)], parent_dir)
        q == ReSearch([i \in Positions(name_without_ext) |-> DelimitedYearLen(name_without_ext, i)],
                      name_without_ext)
    IN IF p # 0 THEN Sub(parent_dir, p + 1, p + 4)
       ELSE IF q # 0 THEN Sub(name_without_ext, q + 1, q + 4)
       ELSE None

\* the title read off the name, None when the branch of the name is not taken
TitleFromName(parent_dir, name_without_ext, mt, season, episode, language) ==
    IF ~mt.is_series THEN MovieTitleFromName(name_without_ext)
    ELSE IF Lower(parent_dir) \in {"download", "downloads", "temp", "tmp"} \/ mt.is_anime
         THEN SeriesTitleFromName(name_without_ext, season, episode, language)
    ELSE None

\* an empty title is replaced by a folder name
TitleOrFolder(title, file_path, parent_dir, mt) ==
    IF IsTruthyStr(title) THEN title
    ELSE IF mt.is_series THEN SeriesTitleFromPath(file_path, parent_dir)
    ELSE parent_dir

ExtractInfoWith(file_path, parent_dir, name_without_ext, mt, season, episode, language) ==
    [title |-> TitleOrFolder(TitleFromName(parent_dir, name_without_ext, mt, season, episode, language),
                             file_path, parent_dir, mt),
     year |-> IF ~mt.is_series THEN ExtractYear(parent_dir, name_without_ext) ELSE None,
     season |-> season, episode |-> episode, language |-> language, tmdb_id |-> NoId,
     episode_title |-> None, episode_overview |-> None, episode_air_date |-> None]

\* a variant that looks for a season and an episode in every file
ExtractInfoFromAnyType(file_path, parent_dir, name_without_ext, mt) ==
    ExtractInfoWith(file_path, parent_dir, name_without_ext, mt,
        ExtractSeason(parent_dir, name_without_ext, mt.is_anime),
        ExtractEpisodeFrom(1, name_without_ext),
        ExtractLanguage(name_without_ext))
ExtractInfoFrom(file_path, parent_dir, name_without_ext, mt) ==
    ExtractInfoWith(file_path, parent_dir, name_without_ext, mt,
        IF mt.is_series THEN ExtractSeason(parent_dir, name_without_ext, mt.is_anime) ELSE NoneInt,
        IF mt.is_series THEN ExtractEpisodeFrom(1, name_without_ext) ELSE NoneInt,
        ExtractLanguage(name_without_ext))

ExtractFileInfo(file_path, mt) ==
    ExtractInfoFrom(file_path, Basename(Dirname(file_path)), SplitExtRoot(Basename(file_path)), mt)

-----------------------------------------------------------------------------
(* PlexNaming._generate_plex_path                                          *)

\* a variant that always nests a Serie folder in the anime folder
DestFolderAlwaysNested(c, type, anime_movie_exists) ==
    CASE type = "movie" -> PathJoin(c.root_path, c.film_folder)
      [] type = "series" -> PathJoin(c.root_path, c.serie_folder)
      [] type = "anime_movie" ->
            IF c.anime_movie_folder # "" /\ anime_movie_exists
            THEN PathJoin(c.root_path, c.anime_movie_folder)
            ELSE PathJoin(PathJoin(c.root_path, c.anime_folder), "Film")
      [] type = "anime_series" -> PathJoin(PathJoin(c.root_path, c.anime_folder), "Serie")
\* anime_movie_exists stands for os.path.exists(root_path/anime_movie_folder)
DestFolder(c, type, anime_movie_exists) ==
    CASE type = "movie" -> PathJoin(c.root_path, c.film_folder)
      [] type = "series" -> PathJoin(c.root_path, c.serie_folder)
      [] type = "anime_movie" ->
            IF c.anime_movie_folder # "" /\ anime_movie_exists
            THEN PathJoin(c.root_path, c.anime_movie_folder)
            ELSE PathJoin(PathJoin(c.root_path, c.anime_folder), "Film")
      [] type = "anime_series" ->
            IF \/ Contains(Lower(c.anime_folder), "serie")
               \/ Contains(Lower(PathJoin(c.root_path, c.anime_folder)), "anime/serie")
            THEN PathJoin(c.root_path, c.anime_folder)
            ELSE PathJoin(PathJoin(c.root_path, c.anime_folder), "Serie")

CleanTitle(title, language) ==
    LET t1 == IF IsTruthyStr(language)
              THEN RemoveLangParen(RemoveLangSuffix(title, language), language)
              ELSE title
        t2 == Replace(Replace(t1, "_", " "), "-", " ")
    IN Strip(CollapseSpaces(PunctToSpaceKeepParens(t2)))

TmdbTag(c, info) ==
    IF c.use_tmdb_ids /\ info.tmdb_id # NoId THEN " {tmdb-" \o IntToStr(info.tmdb_id) \o "}" ELSE ""

\* season_num = info.get("season", 1): the key is always present, so an
\* unresolved season stays None and the format {season_num:02d} raises
EpisodeCode(season_num, ep_num) == "s" \o Format02d(season_num) \o "e" \o Format02d(ep_num)

\* a variant that files an episode without a number as episode 0
SeriesPathAnyEpisode(c, dest_folder, title, info, ext, original_path) ==
    LET season_num == IF info.season = NoneInt THEN 1 ELSE info.season
        ep_num == IF info.episode = NoneInt THEN 0 ELSE info.episode
    IN PathJoin(PathJoin(PathJoin(dest_folder, title), "Season " \o IntToStr(season_num)),
           title \o " - " \o EpisodeCode(season_num, ep_num) \o TmdbTag(c, info) \o ext)
SeriesPath(c, dest_folder, title, info, ext, original_path) ==
    LET series_folder == IF IsTruthyStr(info.year)
                         THEN PathJoin(dest_folder, title) \o " (" \o info.year \o ")"
                         ELSE PathJoin(dest_folder, title)
        season_num == info.season
        season_folder == PathJoin(series_folder,
                             "Season " \o (IF season_num = NoneInt THEN "None" ELSE IntToStr(season_num)))
        ep_title == IF IsTruthyStr(info.episode_title) THEN " - " \o info.episode_title ELSE ""
    IN IF info.episode = NoneInt \/ info.episode = 0 THEN original_path
       ELSE IF season_num = NoneInt THEN original_path      \* TypeError, caught
       ELSE PathJoin(season_folder,
                title \o " - " \o EpisodeCode(season_num, info.episode) \o ep_title
                      \o TmdbTag(c, info) \o ext)

MoviePath(c, dest_folder, title, info, ext) ==
    LET movie_name == IF IsTruthyStr(info.year) THEN title \o " (" \o info.year \o ")" ELSE title
    IN PathJoin(PathJoin(dest_folder, movie_name), movie_name \o TmdbTag(c, info) \o ext)

GeneratePlexPath(c, original_path, info, mt, anime_movie_exists) ==
    LET ext == SplitExtExt(original_path)
        dest_folder == DestFolder(c, mt.type, anime_movie_exists)
        title == CleanTitle(info.title, info.language)
    IN IF mt.type \notin {"movie", "series", "anime_movie", "anime_series"} THEN original_path
       ELSE IF info.title = None THEN original_path          \* TypeError, caught
       ELSE IF mt.is_series THEN SeriesPath(c, dest_folder, title, info, ext, original_path)
       ELSE MoviePath(c, dest_folder, title, info, ext)

-----------------------------------------------------------------------------
(* The catalog (TMDB).  Which request hits, is empty or raises is chosen   *)
(* by the environment; the record behind an id is fixed.                   *)

MaxId == 2
Ids == 1..MaxId

CatalogTitle(id) == IF id = 1 THEN "Avatar" ELSE IF id = 2 THEN "Lost" ELSE "Akira"
\* release_date / first_air_date; the record of id 2 has none
CatalogDate(id) == IF id = 1 THEN "2009-12-18" ELSE IF id = 2 THEN "" ELSE "1988-07-16"
CatalogYear(id, otherwise) == IF CatalogDate(id) # "" THEN Sub(CatalogDate(id), 1, 4) ELSE otherwise
\* the episode record of a series; the episode name of id 2 holds a slash
CatalogEpisode(id) ==
    [name |-> IF id = 2 THEN "Yes/No" ELSE "Pilot", overview |-> "Overview",
     air_date |-> "2004-09-22"]

SearchAnswers ==
    {[st |-> "exc", id |-> 0, pop |-> 0], [st |-> "empty", id |-> 0, pop |-> 0]}
    \cup {[st |-> "hit", id |-> i, pop |-> 1] : i \in Ids}
\* in classification the popularity of the two top hits is compared
RankedAnswers ==
    {[st |-> "exc", id |-> 0, pop |-> 0], [st |-> "empty", id |-> 0, pop |-> 0]}
    \cup {[st |-> "hit", id |-> i, pop |-> q] : i \in Ids, q \in 1..2}
ClassifyAnswers ==
    [movie : RankedAnswers, tv : RankedAnswers, detail : {"exc", "anime", "plain"},
     kw : {"exc", "anime", "plain"}, rescue : SearchAnswers]

\* A detail answer: an exception, no record, a full record, a record without
\* its title (name), a record without original_title.
DetailAnswers == {"exc", "none", "ok", "no_title", "no_original"}


-----------------------------------------------------------------------------
(* PlexNaming.search_and_enrich_with_tmdb                                  *)

SearchTitle(title) == Strip(CollapseSpaces(PunctToSpace(title)))

EpisodeEndpoint(id, season, episode) ==
    "tv/" \o IntToStr(id) \o "/season/" \o IntToStr(season) \o "/episode/" \o IntToStr(episode)

\* The result is the file_info after the call, the returned flag and the
\* requests issued.
SearchAndEnrichSeries(info, ans) ==
    LET id == ans.search.id
        r1 == <<Request("search/tv", SearchTitle(info.title))>>
        r2 == Append(r1, Request("tv/" \o IntToStr(id), ""))
        wants_episode == info.season \notin {NoneInt, 0} /\ info.episode \notin {NoneInt, 0}
        r3 == IF wants_episode
              THEN Append(r2, Request(EpisodeEndpoint(id, info.season, info.episode), ""))
              ELSE r2
        enriched == [info EXCEPT !.tmdb_id = id, !.title = CatalogTitle(id),
                                 !.year = CatalogYear(id, None)]
        with_episode == [enriched EXCEPT !.episode_title = CatalogEpisode(id).name,
                                         !.episode_overview = CatalogEpisode(id).overview,
                                         !.episode_air_date = CatalogEpisode(id).air_date]
    IN IF ~IsHit(ans.search) THEN [info |-> info, ok |-> FALSE, reqs |-> r1]
       ELSE IF ans.detail \in {"exc", "none"} THEN [info |-> info, ok |-> FALSE, reqs |-> r2]
       ELSE IF ans.detail = "no_title"
            THEN [info |-> [info EXCEPT !.tmdb_id = id], ok |-> FALSE, reqs |-> r2]
       ELSE IF wants_episode /\ ans.episode = "ok" THEN [info |-> with_episode, ok |-> TRUE, reqs |-> r3]
       ELSE [info |-> enriched, ok |-> TRUE, reqs |-> r3]

SearchAndEnrichMovie(info, ans) ==
    LET id == ans.search.id
        r1 == <<Request("search/movie", SearchTitle(info.title))>>
        r2 == Append(r1, Request("movie/" \o IntToStr(id), ""))
        enriched == [info EXCEPT !.tmdb_id = id, !.title = CatalogTitle(id),
                                 !.year = CatalogYear(id, None)]
    IN IF ~IsHit(ans.search) THEN [info |-> info, ok |-> FALSE, reqs |-> r1]
       ELSE IF ans.detail \in {"exc", "none"} THEN [info |-> info, ok |-> FALSE, reqs |-> r2]
       ELSE IF ans.detail = "no_title"
            THEN [info |-> [info EXCEPT !.tmdb_id = id], ok |-> FALSE, reqs |-> r2]
       ELSE IF ans.detail = "no_original" THEN [info |-> enriched, ok |-> FALSE, reqs |-> r2]
       ELSE [info |-> enriched, ok |-> TRUE, reqs |-> r2]

SearchAndEnrichWithTmdb(info, mt, ans) ==
    IF ~IsTruthyStr(info.title) THEN [info |-> info, ok |-> FALSE, reqs |-> <<>>]
    ELSE IF mt.is_series THEN SearchAndEnrichSeries(info, ans)
    ELSE SearchAndEnrichMovie(info, ans)

-----------------------------------------------------------------------------
(* PlexNaming._enrich_with_tmdb_metadata                                   *)

WithYear(title, year) == IF IsTruthyStr(year) THEN title \o " " \o year ELSE title

\* a variant that tries the loosest query first
StrategyQueryLoosestFirst(n, info) ==
    CASE n = 4 -> WithYear(info.title, info.year)
      [] n = 3 -> WithYear(SearchTitle(info.title), info.year)
      [] n = 2 -> SearchTitle(info.title)
      [] n = 1 -> JoinWith(SubSeq(Words(info.title), 1,
                               IF Len(Words(info.title)) < 3 THEN Len(Words(info.title)) ELSE 3), " ")
\* the queries of the four movie strategies
StrategyQuery(n, info) ==
    CASE n = 1 -> WithYear(info.title, info.year)
      [] n = 2 -> WithYear(SearchTitle(info.title), info.year)
      [] n = 3 -> SearchTitle(info.title)
      [] n = 4 -> JoinWith(SubSeq(Words(info.title), 1,
                               IF Len(Words(info.title)) < 3 THEN Len(Words(info.title)) ELSE 3), " ")

StrategyAnswer(n, ans) ==
    CASE n = 1 -> ans.s1 [] n = 2 -> ans.s2 [] n = 3 -> ans.s3 [] n = 4 -> ans.s4

\* a strategy that raises or finds nothing is followed by the next one
RECURSIVE EnrichMovieFrom(_, _, _, _)
EnrichMovieFrom(n, info, ans, reqs) ==
    IF n > 4 THEN [info |-> info, reqs |-> reqs]
    ELSE LET rq == Append(reqs, Request("search/movie", StrategyQuery(n, info)))
         IN IF IsHit(StrategyAnswer(n, ans))
            THEN [info |-> [info EXCEPT !.tmdb_id = StrategyAnswer(n, ans).id], reqs |-> rq]
            ELSE EnrichMovieFrom(n + 1, info, ans, rq)

\* a variant that never appends the qualifier
EnrichSeriesQueryPlain(title, is_anime) ==
    Strip(CollapseSpaces(Replace(Replace(RemoveLangTags(title), "-", " "), "_", " ")))
EnrichSeriesQuery(title, is_anime) ==
    LET t1 == RemoveLangTags(title)
        t2 == Strip(CollapseSpaces(Replace(Replace(t1, "-", " "), "_", " ")))
    IN IF is_anime THEN t2 \o " anime" ELSE t2

EnrichSeries(info, mt, ans) ==
    LET id == ans.s1.id
        r1 == <<Request("search/tv", EnrichSeriesQuery(info.title, mt.is_anime))>>
        r2 == Append(r1, Request("tv/" \o IntToStr(id), ""))
    IN IF ~IsHit(ans.s1) THEN [info |-> info, reqs |-> r1]
       ELSE IF ans.detail \in {"exc", "none"} THEN [info |-> info, reqs |-> r2]
       ELSE IF ans.detail = "no_title" THEN [info |-> [info EXCEPT !.tmdb_id = id], reqs |-> r2]
       ELSE [info |-> [info EXCEPT !.tmdb_id = id, !.year = CatalogYear(id, info.year)],
             reqs |-> r2]

\* the id bound by classification is copied and the search is skipped; for
\* a movie the detail record of that id refreshes the year
EnrichWithBoundId(info, mt, ans) ==
    LET bound == [info EXCEPT !.tmdb_id = mt.tmdb_id]
        r1 == <<Request("movie/" \o IntToStr(mt.tmdb_id), "")>>
    IN IF mt.is_series THEN [info |-> bound, reqs |-> <<>>]
       ELSE IF ans.detail \in {"ok", "no_original"}
            THEN [info |-> [bound EXCEPT !.year = CatalogYear(mt.tmdb_id, info.year)], reqs |-> r1]
       ELSE [info |-> bound, reqs |-> r1]

EnrichWithTmdbMetadata(c, info, mt, ans) ==
    IF mt.tmdb_id # NoId /\ c.use_tmdb_ids THEN EnrichWithBoundId(info, mt, ans)
    ELSE IF ~mt.is_series THEN EnrichMovieFrom(1, info, ans, <<>>)
    ELSE EnrichSeries(info, mt, ans)

-----------------------------------------------------------------------------
(* The file system: files maps the path of every regular file to its       *)
(* content, dirs is the set of directories.                                *)

\* a path and the directories above it, the root directory excluded
RECURSIVE AncestorsInc(_)
AncestorsInc(p) == IF p \in {"", Sep} THEN {} ELSE {p} \cup AncestorsInc(Dirname(p))

\* the path is the directory or lies below it
Under(path, dir) == path = dir \/ StartsAt(path, 1, dir \o Sep)

RemoveKey(f, k) == [x \in (DOMAIN f) \ {k} |-> f[x]]
PutKey(f, k, v) == [x \in (DOMAIN f) \cup {k} |-> IF x = k THEN v ELSE f[x]]

\* a variant that takes a directory without sub-directories for empty
IsEmptyDirOfFolders(path, fl, ds) == \A d \in ds : Dirname(d) # path
\* os.listdir(path) is empty
IsEmptyDir(path, fl, ds) ==
    /\ \A f \in DOMAIN fl : Dirname(f) # path
    /\ \A d \in ds : Dirname(d) # path

\* PlexNaming._remove_empty_folders: the sub-directories are pruned first,
\* then the directory is removed if nothing is left in it.  The result is
\* the set of directories after the call.
RECURSIVE RemoveEmptyFolders(_, _, _)
RECURSIVE RemoveEmptyFoldersIn(_, _, _)
\* a variant that does not look into the sub-directories
RemoveEmptyFoldersShallow(path, fl, ds) ==
    IF path \in ds /\ IsEmptyDir(path, fl, ds) THEN ds \ {path} ELSE ds
RemoveEmptyFolders(path, fl, ds) ==
    IF path \notin ds THEN ds
    ELSE LET after == RemoveEmptyFoldersIn({d \in ds : Dirname(d) = path}, fl, ds)
         IN IF IsEmptyDir(path, fl, after) THEN after \ {path} ELSE after
RemoveEmptyFoldersIn(items, fl, ds) ==
    IF items = {} THEN ds
    ELSE LET item == CHOOSE d \in items : TRUE
         IN RemoveEmptyFoldersIn(items \ {item}, fl, RemoveEmptyFolders(item, fl, ds))

\* os.makedirs(path, exist_ok=True) raises when a component is a regular file
MakedirsRaises(path, fl) == \E a \in AncestorsInc(path) : a \in DOMAIN fl
Makedirs(path, ds) == ds \cup AncestorsInc(path)

\* shutil.move(src, dst): a destination that is a directory receives the
\* file under its own name, and an entry of that name makes the call raise;
\* any other destination is replaced by the rename.
MoveTarget(src, dst, ds) == IF dst \in ds THEN PathJoin(dst, Basename(src)) ELSE dst
MoveRaises(src, dst, fl, ds) ==
    dst \in ds /\ (MoveTarget(src, dst, ds) \in DOMAIN fl \/ MoveTarget(src, dst, ds) \in ds)
\* a variant of the move that removes the source and writes nothing
MoveFilesLosing(src, dst, fl, ds) == RemoveKey(fl, src)
MoveFiles(src, dst, fl, ds) == PutKey(RemoveKey(fl, src), MoveTarget(src, dst, ds), fl[src])
\* the copy of a move across file systems was made and the removal of the
\* source raised
CopyFiles(src, dst, fl, ds) == PutKey(fl, MoveTarget(src, dst, ds), fl[src])

-----------------------------------------------------------------------------
(* PlexNaming.process_downloaded_file, one action per step of the call     *)

VARIABLES
    cfg,          \* the settings read by PlexNaming.__init__
    files, dirs,  \* the file system
    pc,           \* position in process_downloaded_file
    file_path,    \* argument of the call
    media_type,   \* result of _determine_media_type
    file_info,    \* the dict built by _extract_file_info and enriched
    tmdb_success, \* result of search_and_enrich_with_tmdb
    new_path,     \* result of _generate_plex_path
    result,       \* what the call gave back: a path, or an exception
    requests,     \* catalog requests issued by the step just taken
    answers,      \* what the catalog answered to the step just taken
    fault,        \* what failed in the relocation
    pending,      \* fix_plex_naming: entries of os.listdir(serie_path) not yet handled
    before        \* fix_plex_naming: the file system when the script started

vars == <<cfg, files, dirs, pc, file_path, media_type, file_info, tmdb_success,
          new_path, result, requests, answers, fault, pending, before>>
\* the variables of the script fix_plex_naming.py beside the file system
fixvars == <<pending, before>>
\* the variables of a call of process_downloaded_file beside the file system
callvars == <<cfg, file_path, media_type, file_info, tmdb_success, new_path, result,
              requests, answers, fault>>

Categories == {"movie", "series", "anime_movie", "anime_series"}

\* The usual folder names with every combination of the two switches, and
\* two more settings of the anime folders: an anime folder whose name says
\* that it holds series, and an anime movie folder of its own.
Configs ==
    [root_path : {"/Video"}, film_folder : {"Film"}, serie_folder : {"Serie"},
     anime_folder : {"Anime"}, anime_movie_folder : {"Anime/Film"},
     add_site_name : BOOLEAN, use_tmdb_ids : BOOLEAN]
    \cup
    [root_path : {"/Video"}, film_folder : {"Film"}, serie_folder : {"Serie"},
     anime_folder : {"Anime/Serie"}, anime_movie_folder : {"Anime/Film"},
     add_site_name : {FALSE}, use_tmdb_ids : {FALSE}]
    \cup
    [root_path : {"/Video"}, film_folder : {"Film"}, serie_folder : {"Serie"},
     anime_folder : {"Anime"}, anime_movie_folder : {"AnimeFilm"},
     add_site_name : {FALSE}, use_tmdb_ids : {FALSE}]

\* The library before the call: fresh downloads, files left by earlier
\* calls at their canonical place, an episode kept below a season folder,
\* and a download outside the library.
InitialFiles ==
    <<"/Video/Film/Avatar_2009.mp4",
      "/Video/Film/Avatar (2009).mp4",
      "/Video/Film/Avatar (2009)/Avatar (2009).mp4",
      "/Video/Film/Avatar (2009)/Avatar (2009) {tmdb-1}.mp4",
      "/Video/Film/Akira.mp4",
      "/Video/Serie/Breaking Bad/Breaking.Bad.S01E01.ita.mp4",
      "/Video/Serie/Lost/Lost E05.mp4",
      "/Video/Serie/Lost/Lost.S01E00.mp4",
      "/Video/Anime/Serie/One Piece/One.Piece.E1001.ita.mp4",
      "/Video/Anime/naruto-12.mp4",
      "/Video/sc/Film/Avatar (2009).mp4",
      "/dl/Avatar (2009).mp4",
      "/Video/Serie/S1/Lost/Lost E07.mp4">>

\* the content of a file is the number of its path in InitialFiles
InitialContent ==
    [p \in {InitialFiles[i] : i \in 1..Len(InitialFiles)} |->
        CHOOSE i \in 1..Len(InitialFiles) : InitialFiles[i] = p]

TaxonomyDirs ==
    {"/Video", "/Video/Film", "/Video/Serie", "/Video/Anime", "/Video/Anime/Film",
     "/Video/Anime/Serie"}
\* the folders of the files, an empty folder left beside a download, and
\* the folder that a setting can name as the anime movie folder
InitialDirs ==
    TaxonomyDirs \cup UNION {AncestorsInc(Dirname(p)) : p \in DOMAIN InitialContent}
        \cup {"/Video/sc/Film/extras", "/Video/AnimeFilm"}

NoInfo ==
    [title |-> None, year |-> None, season |-> NoneInt, episode |-> NoneInt,
     language |-> None, tmdb_id |-> NoId,
     episode_title |-> None, episode_overview |-> None, episode_air_date |-> None]

Returned(p) == [path |-> p, raised |-> FALSE]
\* the script fix_plex_naming.py has not been started
NoTree == [files |-> <<>>, dirs |-> {}]
\* a step that does not consult the catalog
NoAnswers == [step |-> "none"]

Init ==
    /\ cfg \in Configs
    /\ files = InitialContent
    /\ dirs = InitialDirs
    /\ pc = "idle"
    /\ file_path = None
    /\ media_type = NoMediaType
    /\ file_info = NoInfo
    /\ tmdb_success = FALSE
    /\ new_path = None
    /\ result = Returned(None)
    /\ requests = <<>>
    /\ answers = NoAnswers
    /\ fault = "none"
    /\ pending = {}
    /\ before = NoTree

\* The answers that can make a difference: a request that is not issued
\* has no answer to vary.
QuietSearch == [st |-> "empty", id |-> 0, pop |-> 0]
ClassifyAnswersFor(sig) ==
    IF ~sig.is_anime_movie /\ sig.rule = "none"
    THEN {a \in ClassifyAnswers :
            /\ (a.movie.st = "exc" \/ a.tv.st = "exc" \/ (~IsHit(a.movie) /\ ~IsHit(a.tv)))
                   => (a.detail = "plain" /\ a.kw = "plain")
            /\ a.movie.st = "exc" => a.tv = QuietSearch
            /\ a.detail = "exc" => a.kw = "plain"
            /\ "exc" \notin {a.movie.st, a.tv.st, a.detail, a.kw} => a.rescue = QuietSearch}
    ELSE {[movie |-> QuietSearch, tv |-> QuietSearch, detail |-> "plain", kw |-> "plain",
           rescue |-> QuietSearch]}
SearchEnrichAnswersFor(mt) ==
    {a \in [search : SearchAnswers, detail : DetailAnswers,
            episode : IF mt.is_series THEN {"none", "ok"} ELSE {"none"}] :
        /\ ~IsHit(a.search) => a.detail = "none"
        /\ a.detail \in {"exc", "none", "no_title"} => a.episode = "none"}
FallbackAnswersFor(c, mt) ==
    IF mt.tmdb_id # NoId /\ c.use_tmdb_ids
    THEN [s1 : {QuietSearch}, s2 : {QuietSearch}, s3 : {QuietSearch}, s4 : {QuietSearch},
          detail : IF mt.is_series THEN {"none"} ELSE DetailAnswers]
    ELSE IF mt.is_series
    THEN {a \in [s1 : SearchAnswers, s2 : {QuietSearch}, s3 : {QuietSearch},
                 s4 : {QuietSearch}, detail : DetailAnswers] :
            ~IsHit(a.s1) => a.detail = "none"}
    ELSE {a \in [s1 : SearchAnswers, s2 : SearchAnswers, s3 : SearchAnswers,
                 s4 : SearchAnswers, detail : {"none"}] :
            /\ IsHit(a.s1) => a.s2 = QuietSearch
            /\ (IsHit(a.s1) \/ IsHit(a.s2)) => a.s3 = QuietSearch
            /\ (IsHit(a.s1) \/ IsHit(a.s2) \/ IsHit(a.s3)) => a.s4 = QuietSearch}

\* lines 885-897: the call starts and classifies its argument
Classify(p) ==
    /\ pc = "idle"
    /\ \E sig \in {PathSignals(cfg, p)} :
          \E ans \in ClassifyAnswersFor(sig) :
             \E d \in {DetermineMediaType(sig, ans)} :
                /\ media_type' = d.mt
                /\ requests' = d.reqs
                /\ answers' = IF d.reqs = <<>> THEN NoAnswers ELSE ans
                /\ pc' = IF d.mt.type = "none" THEN "done" ELSE "classified"
                /\ result' = IF d.mt.type = "none" THEN Returned(p) ELSE Returned(None)
    /\ file_path' = p
    /\ UNCHANGED <<cfg, files, dirs, file_info, tmdb_success, new_path, fault>>
    /\ UNCHANGED fixvars

\* lines 905-912: extraction, then the id of the classification is copied
TransferId(c, info, mt) ==
    IF mt.tmdb_id # NoId /\ c.use_tmdb_ids THEN [info EXCEPT !.tmdb_id = mt.tmdb_id] ELSE info

Extract ==
    /\ pc = "classified"
    /\ file_info' = TransferId(cfg, ExtractFileInfo(file_path, media_type), media_type)
    /\ requests' = <<>>
    /\ answers' = NoAnswers
    /\ pc' = "extracted"
    /\ UNCHANGED <<cfg, files, dirs, file_path, media_type, tmdb_success, new_path,
                   result, fault>>
    /\ UNCHANGED fixvars

\* lines 915-917
SearchAndEnrich ==
    /\ pc = "extracted"
    /\ cfg.use_tmdb_ids
    /\ \E ans \in SearchEnrichAnswersFor(media_type) :
          LET r == SearchAndEnrichWithTmdb(file_info, media_type, ans)
          IN /\ file_info' = r.info
             /\ tmdb_success' = r.ok
             /\ requests' = r.reqs
             /\ answers' = IF r.reqs = <<>> THEN NoAnswers ELSE ans
    /\ pc' = "searched"
    /\ UNCHANGED <<cfg, files, dirs, file_path, media_type, new_path, result, fault>>
    /\ UNCHANGED fixvars

\* lines 918-922
EnrichFallback ==
    /\ pc = "searched"
    /\ ~tmdb_success
    /\ \E ans \in FallbackAnswersFor(cfg, media_type) :
          LET r == EnrichWithTmdbMetadata(cfg, file_info, media_type, ans)
          IN /\ file_info' = r.info
             /\ requests' = r.reqs
             /\ answers' = IF r.reqs = <<>> THEN NoAnswers ELSE ans
    /\ pc' = "enriched"
    /\ UNCHANGED <<cfg, files, dirs, file_path, media_type, tmdb_success, new_path,
                   result, fault>>
    /\ UNCHANGED fixvars

PathExists(p, fl, ds) == p \in ds \/ p \in DOMAIN fl

\* lines 924-925
GeneratePath ==
    /\ CASE pc = "extracted" -> ~cfg.use_tmdb_ids
         [] pc = "searched" -> tmdb_success
         [] pc = "enriched" -> TRUE
         [] OTHER -> FALSE
    /\ new_path' = GeneratePlexPath(cfg, file_path, file_info, media_type,
                       PathExists(PathJoin(cfg.root_path, cfg.anime_movie_folder), files, dirs))
    /\ requests' = <<>>
    /\ answers' = NoAnswers
    /\ pc' = "generated"
    /\ UNCHANGED <<cfg, files, dirs, file_path, media_type, file_info, tmdb_success,
                   result, fault>>
    /\ UNCHANGED fixvars

\* the two handlers of process_downloaded_file: both give back the argument
\* a variant of the inner handler that reports the directory of the argument
MoveCatchElsewhere(p) == Returned(Dirname(p))
MoveCatch(p) == Returned(p)
\* a variant of the outer handler that lets the exception through
ProcessCatchReraises(p) == [path |-> None, raised |-> TRUE]
ProcessCatch(p) == Returned(p)

\* lines 927-947: the outcome of the relocation as the file system, the
\* value given back and the failure met.  mk and mv are what the operating
\* system does with the directory creation and with the move.
Relocation(p, np, fl, ds, mk, mv) ==
    LET parent_dir == Dirname(np)
        made == Makedirs(parent_dir, ds)
        moved == MoveFiles(p, np, fl, made)
    IN IF np = p THEN [files |-> fl, dirs |-> ds, result |-> Returned(np), fault |-> "none"]
       ELSE IF mk = "fail" \/ MakedirsRaises(parent_dir, fl)
            THEN [files |-> fl, dirs |-> ds, result |-> ProcessCatch(p), fault |-> "makedirs"]
       ELSE IF mv = "fail" \/ MoveRaises(p, np, fl, made)
            THEN [files |-> fl, dirs |-> made, result |-> MoveCatch(p), fault |-> "move"]
       ELSE IF mv = "copied"
            THEN [files |-> CopyFiles(p, np, fl, made), dirs |-> made, result |-> MoveCatch(p),
                  fault |-> "unlink"]
       ELSE [files |-> moved, dirs |-> RemoveEmptyFolders(Dirname(p), moved, made),
             result |-> Returned(np), fault |-> "none"]

Relocate(mk, mv) ==
    /\ pc = "generated"
    /\ LET r == Relocation(file_path, new_path, files, dirs, mk, mv)
       IN /\ files' = r.files
          /\ dirs' = r.dirs
          /\ result' = r.result
          /\ fault' = r.fault
    /\ pc' = "done"
    /\ UNCHANGED <<cfg, file_path, media_type, file_info, tmdb_success, new_path, requests,
                   answers>>
    /\ UNCHANGED fixvars

Next ==
    \/ \E p \in DOMAIN files : Classify(p)
    \/ Extract
    \/ SearchAndEnrich
    \/ EnrichFallback
    \/ GeneratePath
    \/ \E mk \in {"ok", "fail"}, mv \in {"ok", "fail", "copied"} : Relocate(mk, mv)

Spec == Init /\ [][Next]_vars

-----------------------------------------------------------------------------
(* fix_plex_naming.py: the script that flattens Anime/Serie/Serie and      *)
(* removes the empty folders the renaming left behind                      *)

ANIME_FOLDER == "/mnt/e/Anime"
serie_path == PathJoin(PathJoin(ANIME_FOLDER, "Serie"), "Serie")

\* os.listdir(path): the names of the entries of a directory
ListDir(path, fl, ds) == {Basename(x) : x \in {y \in DOMAIN fl \cup ds : Dirname(y) = path}}

\* the place of the entry p of src once src has been renamed to dst
Rebase(p, src, dst) == dst \o Sub(p, Len(src) + 1, Len(p))

\* shutil.move of the entries `roots` of src to their names in dst: each
\* root goes there with all that is below it, and a moved entry replaces
\* what has its place
ShutilMoveAll(roots, src, dst, fl, ds) ==
    LET moved(p) == \E r \in roots : Under(p, r)
        place(p) == IF moved(p) THEN Rebase(p, src, dst) ELSE p
        origin(q) == CHOOSE p \in DOMAIN fl :
                        /\ place(p) = q
                        /\ moved(p) \/ ~\E p2 \in DOMAIN fl : moved(p2) /\ place(p2) = q
    IN [files |-> [q \in {place(p) : p \in DOMAIN fl} |-> fl[origin(q)]],
        dirs |-> {place(d) : d \in ds}]

\* a variant that moves an item, or the entries of a merged folder, onto
\* whatever has their name at the destination
FixRootsOverwriting(src, dst, fl, ds) ==
    IF src \in ds /\ dst \in ds
    THEN {PathJoin(src, sub_item) : sub_item \in ListDir(src, fl, ds)}
    ELSE {src}
\* lines 23-37: what the handling of one item moves: the item when nothing
\* has its name in Anime/Serie; when both are directories, the entries of
\* the item that have no namesake in the other; nothing otherwise
FixRoots(src, dst, fl, ds) ==
    IF ~PathExists(dst, fl, ds) THEN {src}
    ELSE IF src \in ds /\ dst \in ds
         THEN {PathJoin(src, sub_item) :
                  sub_item \in {x \in ListDir(src, fl, ds) :
                                   ~PathExists(PathJoin(dst, x), fl, ds)}}
    ELSE {}

\* The libraries the script is started on: Anime/Serie with any choice of
\* these folders and files that makes a directory tree.  The content of a
\* file is the path it had when the script started.
FixBaseDirs == AncestorsInc(PathJoin(ANIME_FOLDER, "Serie"))
FixOptionalDirs ==
    {serie_path,
     PathJoin(serie_path, "Naruto"), PathJoin(serie_path, "Naruto/S1"),
     PathJoin(serie_path, "demon-slayer"), PathJoin(serie_path, "Serie"),
     PathJoin(ANIME_FOLDER, "Serie/Naruto"), PathJoin(ANIME_FOLDER, "Serie/Naruto/S1"),
     PathJoin(ANIME_FOLDER, "Serie/demon-slayer"), PathJoin(ANIME_FOLDER, "naruto-ita")}
FixOptionalFiles ==
    {PathJoin(serie_path, "Naruto/ep1.mp4"), PathJoin(serie_path, "Naruto/S1/ep2.mp4"),
     PathJoin(serie_path, "ep0.mp4"), PathJoin(serie_path, "Serie/ep0.mp4"),
     PathJoin(ANIME_FOLDER, "Serie/Naruto"), PathJoin(ANIME_FOLDER, "Serie/Naruto/ep1.mp4"),
     PathJoin(ANIME_FOLDER, "Serie/Naruto/S1/ep2.mp4"), PathJoin(ANIME_FOLDER, "Serie/ep0.mp4")}

FixInit ==
    /\ \E D \in SUBSET FixOptionalDirs, F \in SUBSET FixOptionalFiles :
          /\ D \cap F = {}
          /\ \A x \in D \cup F : Dirname(x) \in D \cup FixBaseDirs
          /\ dirs = FixBaseDirs \cup D
          /\ files = [f \in F |-> f]
          /\ before = [files |-> [f \in F |-> f], dirs |-> FixBaseDirs \cup D]
    /\ pc = "start"
    /\ pending = {}
    /\ cfg = CHOOSE c \in Configs : ~c.add_site_name /\ ~c.use_tmdb_ids /\ c.anime_folder = "Anime"
                                     /\ c.anime_movie_folder = "Anime/Film"
    /\ file_path = None
    /\ media_type = NoMediaType
    /\ file_info = NoInfo
    /\ tmdb_success = FALSE
    /\ new_path = None
    /\ result = Returned(None)
    /\ requests = <<>>
    /\ answers = NoAnswers
    /\ fault = "none"

\* lines 14-19: fix_anime_structure looks for Serie/Serie and lists it
FixAnimeStructureBegin ==
    /\ pc = "start"
    /\ pending' = IF serie_path \in dirs THEN ListDir(serie_path, files, dirs) ELSE {}
    /\ pc' = IF PathExists(serie_path, files, dirs) THEN "items" ELSE "flattened"
    /\ UNCHANGED <<files, dirs, before>>
    /\ UNCHANGED callvars

\* lines 19-37: one turn of the loop, for the items in any order
FixAnimeStructureItem(item) ==
    /\ pc = "items"
    /\ item \in pending
    /\ LET src == PathJoin(serie_path, item)
           dst == PathJoin(PathJoin(ANIME_FOLDER, "Serie"), item)
           r == ShutilMoveAll(FixRoots(src, dst, files, dirs), src, dst, files, dirs)
       IN /\ files' = r.files
          /\ dirs' = r.dirs
    /\ pending' = pending \ {item}
    /\ UNCHANGED <<pc, before>>
    /\ UNCHANGED callvars

\* lines 39-42: after the loop Serie/Serie is removed if nothing is in it
FixAnimeStructureEnd ==
    /\ pc = "items"
    /\ pending = {}
    /\ dirs' = IF serie_path \in dirs /\ IsEmptyDir(serie_path, files, dirs)
               THEN dirs \ {serie_path} ELSE dirs
    /\ pc' = "flattened"
    /\ UNCHANGED <<files, pending, before>>
    /\ UNCHANGED callvars

\* the directories of a directory whose name holds a dash (lines 74-78)
DashDirs(path, ds) == {d \in ds : Dirname(d) = path /\ Contains(Basename(d), "-")}

\* lines 63-80 and 44-61: fix_original_folders calls remove_empty_folders,
\* which prunes as _remove_empty_folders does, on the dash-named folders
\* of Anime/Serie and then on those of Anime
FixOriginalFolders ==
    /\ pc = "flattened"
    /\ dirs' = LET d1 == RemoveEmptyFoldersIn(DashDirs(PathJoin(ANIME_FOLDER, "Serie"), dirs),
                                              files, dirs)
               IN RemoveEmptyFoldersIn(DashDirs(ANIME_FOLDER, d1), files, d1)
    /\ pc' = "fixed"
    /\ UNCHANGED <<files, pending, before>>
    /\ UNCHANGED callvars

FixNext ==
    \/ FixAnimeStructureBegin
    \/ \E item \in pending : FixAnimeStructureItem(item)
    \/ FixAnimeStructureEnd
    \/ FixOriginalFolders

FixSpec == FixInit /\ [][FixNext]_vars

-----------------------------------------------------------------------------
(* Properties                                                              *)

Classified == pc # "idle"
Enriching == pc \in {"searched", "enriched"}
Done == pc = "done"
IsSearch(r) == r.ep \in {"search/movie", "search/tv"}
EndsWith(s, sub) == Len(sub) <= Len(s) /\ StartsAt(s, Len(s) - Len(sub) + 1, sub)
CountOf(s, sub) == Cardinality({i \in 1..Len(s) : StartsAt(s, i, sub)})
IdBound == cfg.use_tmdb_ids /\ media_type.tmdb_id # NoId
AnimeMovieFolderExists == PathExists(PathJoin(cfg.root_path, cfg.anime_movie_folder), files, dirs)

\* C1: once classification has bound a catalog id to the file, the tmdb_id
\* of the file attributes keeps that value through extraction, both
\* enrichment steps and path generation.
C1_BoundIdKept ==
    (pc \in {"extracted", "searched", "enriched", "generated", "done"} /\ IdBound)
        => file_info.tmdb_id = media_type.tmdb_id

\* C2: when the destination already holds a file, the relocation leaves
\* that file's content alone, leaves the source where it was and gives back
\* the original path without an exception.
C2_ExistingDestinationKept ==
    (Done /\ new_path # file_path /\ new_path \in DOMAIN InitialContent)
        => /\ new_path \in DOMAIN files
           /\ files[new_path] = InitialContent[new_path]
           /\ file_path \in DOMAIN files
           /\ result = Returned(file_path)

\* no known name, no configured folder, no catalog hit, no cue in the path
NoSignal ==
    LET sig == PathSignals(cfg, file_path)
    IN /\ ~sig.is_anime_movie /\ ~sig.is_anime_series
       /\ sig.rule = "none"
       /\ media_type.tmdb_id = NoId
       /\ ~sig.is_anime_path /\ ~sig.is_anime_name
       /\ ~sig.is_series_path /\ ~sig.is_series_name

\* C3: whatever the path and whatever the catalog answers (hits, empty
\* results, exceptions), the classification gives one of the four
\* categories, never an undetermined one, and movie when no signal matches.
C3_AlwaysACategory ==
    Classified => /\ media_type.type \in Categories
                  /\ NoSignal => media_type.type = "movie"

\* the catalog was asked, answered nothing useful, and no cue matched
C3_Witness ==
    /\ pc = "classified" /\ NoSignal /\ Len(requests) >= 2
    /\ media_type.type = "movie"

\* C4: the call never raises: whatever failed, it gives back the original
\* path or the generated path.
C4_NeverRaises ==
    Done => /\ ~result.raised
            /\ result.path \in {file_path, new_path}

\* the directory creation raised and the outer handler answered
C4_Witness == Done /\ fault = "makedirs" /\ result = Returned(file_path)

\* C5: a file with the content of the input exists at the returned path
\* after the call, whether the move succeeded, was skipped or failed; after
\* a failure the returned path is the original one.
C5_FileAtReturnedPath ==
    Done => /\ result.path \in DOMAIN files
            /\ files[result.path] = InitialContent[file_path]
            /\ fault # "none" => result.path = file_path

\* the move was made and the file is at the new path
C5_Witness ==
    /\ Done /\ fault = "none" /\ new_path # file_path
    /\ file_path \notin DOMAIN files
    /\ files[new_path] = InitialContent[file_path]

\* C6: for a series or anime series whose episode number was resolved (any
\* number from 0 up, with or without a season), the generated path holds
\* the code sNNeMM, both numbers padded to two digits, and lies under the
\* destination folder of the category.
C6_EpisodeCodeUnderRoot ==
    (pc = "generated" /\ media_type.is_series /\ file_info.episode # NoneInt)
        => /\ Contains(new_path,
                  EpisodeCode(IF file_info.season = NoneInt THEN 1 ELSE file_info.season,
                              file_info.episode))
           /\ StartsAt(new_path, 1,
                  DestFolder(cfg, media_type.type, AnimeMovieFolderExists) \o Sep)

\* C7: for a movie with a resolved year the folder name ends in (YYYY),
\* which occurs once in it, and extraction followed by generation on the
\* generated path gives that path again.
C7_YearOnceAndIdempotent ==
    (pc = "generated" /\ ~media_type.is_series /\ IsTruthyStr(file_info.year))
        => LET folder == Basename(Dirname(new_path))
               tag == "(" \o file_info.year \o ")"
               again == GeneratePlexPath(cfg, new_path, ExtractFileInfo(new_path, media_type),
                                         media_type, AnimeMovieFolderExists)
           IN /\ EndsWith(folder, tag)
              /\ CountOf(folder, tag) = 1
              /\ again = new_path

\* nothing created, moved or pruned, and the original path given back
RelocationNoop ==
    /\ files = InitialContent /\ dirs = InitialDirs
    /\ result = Returned(file_path)

\* C8 as stated: the relocation is a no-op giving back the original path
\* if and only if the generated path equals the input path.
C8_NoopIffSamePath ==
    Done => (RelocationNoop <=> new_path = file_path)

\* C8: with equal paths the relocation is a no-op giving back the original
\* path; with different paths it is a no-op only when the directory creation
\* or the move failed, any failure gives back the original path, and without
\* a failure the file is at the generated path, which is given back.
C8_NoopOnSamePathOrFailure ==
    Done => /\ new_path = file_path => RelocationNoop
            /\ (new_path # file_path /\ RelocationNoop) => fault \in {"makedirs", "move"}
            /\ fault # "none" => result = Returned(file_path)
            /\ (new_path # file_path /\ fault = "none")
                   => /\ file_path \notin DOMAIN files
                      /\ new_path \in DOMAIN files
                      /\ result = Returned(new_path)

\* the move into an existing folder failed: nothing changed, paths differ
C8_Witness == Done /\ new_path # file_path /\ RelocationNoop /\ fault = "move"

\* C9: with a catalog id bound by classification, no enrichment step
\* issues a search request.
C9_NoSearchWhenBound ==
    (Enriching /\ IdBound) => \A i \in 1..Len(requests) : ~IsSearch(requests[i])

\* the category of the configured folder that opens the path below the root
FolderCategory(c, path) ==
    LET normalized_path == NormPath(path)
        relative_path == LStripSet(Replace(normalized_path, c.root_path, ""), {Sep})
        all == Split(relative_path, Sep)
        parts == IF c.add_site_name THEN Tail(all) ELSE all
    IN IF ~StartsAt(normalized_path, 1, c.root_path \o Sep) \/ Len(parts) = 0 THEN "none"
       ELSE IF parts[1] = c.film_folder THEN "movie"
       ELSE IF parts[1] = c.serie_folder THEN "series"
       ELSE IF parts[1] = c.anime_folder
            THEN (IF Len(parts) > 1 /\ Lower(parts[2]) = "film" THEN "anime_movie"
                  ELSE "anime_series")
       ELSE "none"

\* C10: a path under the root whose first segment, after the site name
\* when sites have their own folder, is a configured category folder is
\* given that folder's category whatever the file is called, and no catalog
\* request is issued.
C10_FolderDecides ==
    (Classified /\ FolderCategory(cfg, file_path) # "none")
        => /\ media_type.type = FolderCategory(cfg, file_path)
           /\ pc = "classified" => requests = <<>>

\* the stages of the call that follow the extraction
Extracted == pc \in {"extracted", "searched", "enriched", "generated", "done"}
Generated == pc \in {"generated", "done"}

\* C11: for a file whose category is not a series (movie, anime_movie),
\* season, episode, episode_title, episode_overview and episode_air_date
\* are unset after the extraction and after each enrichment step.
C11_MovieHasNoEpisodeFields ==
    (Extracted /\ ~media_type.is_series)
        => /\ file_info.season = NoneInt
           /\ file_info.episode = NoneInt
           /\ file_info.episode_title = None
           /\ file_info.episode_overview = None
           /\ file_info.episode_air_date = None

\* a movie whose name ends in a number and that the catalog enriched
C11_Witness ==
    /\ Enriching
    /\ ~media_type.is_series
    /\ file_path = "/Video/Anime/naruto-12.mp4"
    /\ file_info.tmdb_id # NoId
    /\ file_info.episode = NoneInt

\* the file attributes are those of the extraction: no catalog record was
\* applied to them
NotEnriched == file_info.tmdb_id = NoId
FilmFolder == PathJoin(cfg.root_path, cfg.film_folder)
SerieFolder == PathJoin(cfg.root_path, cfg.serie_folder)

\* C12: the file Avatar_2009.mp4 placed directly in the movie folder is
\* classified as movie, its extracted year is "2009" and, without catalog
\* enrichment, its destination is <movie folder>/Avatar (2009)/Avatar (2009).mp4.
C12_AvatarScenario ==
    (file_path = PathJoin(FilmFolder, "Avatar_2009.mp4") /\ ~cfg.add_site_name)
        => /\ Classified => media_type.type = "movie"
           /\ pc = "extracted" => file_info.year = "2009"
           /\ (Generated /\ NotEnriched)
                 => new_path = PathJoin(PathJoin(FilmFolder, "Avatar (2009)"), "Avatar (2009).mp4")

\* C13: the file Breaking.Bad.S01E01.ita.mp4 in the folder Breaking Bad of
\* the series folder is classified as series, its extraction gives season 1,
\* episode 1 and language "ita" and, without catalog enrichment, its
\* destination is <series folder>/Breaking Bad/Season 1/Breaking Bad - s01e01.mp4.
C13_BreakingBadScenario ==
    (/\ file_path = PathJoin(PathJoin(SerieFolder, "Breaking Bad"), "Breaking.Bad.S01E01.ita.mp4")
     /\ ~cfg.add_site_name)
        => /\ Classified => media_type.type = "series"
           /\ pc = "extracted" => /\ file_info.season = 1
                                  /\ file_info.episode = 1
                                  /\ file_info.language = "ita"
           /\ (Generated /\ NotEnriched)
                 => new_path = PathJoin(PathJoin(PathJoin(SerieFolder, "Breaking Bad"), "Season 1"),
                                        "Breaking Bad - s01e01.mp4")

\* C14: the file One.Piece.E1001.ita.mp4 in a folder of the anime series
\* folder is classified as anime_series, its episode is 1001 and its
\* season, which neither the folder nor the name gives, is 1.
C14_OnePieceScenario ==
    (/\ file_path = PathJoin(PathJoin(PathJoin(cfg.root_path, cfg.anime_folder), "Serie/One Piece"),
                             "One.Piece.E1001.ita.mp4")
     /\ ~cfg.add_site_name)
        => /\ Classified => media_type.type = "anime_series"
           /\ Extracted => /\ file_info.episode = 1001
                           /\ file_info.season = 1
           /\ SearchSeason("One Piece") = NoneInt
           /\ SearchSeason("One.Piece.E1001.ita") = NoneInt

C14_Witness ==
    /\ pc = "extracted"
    /\ file_path = "/Video/Anime/Serie/One Piece/One.Piece.E1001.ita.mp4"
    /\ ~cfg.add_site_name
    /\ media_type.type = "anime_series"
    /\ file_info.episode = 1001
    /\ file_info.season = 1

\* the file was moved to a new place
Moved == Done /\ fault = "none" /\ new_path # file_path
\* path is dir or lies below it
\* the directories there were when the move was made
DirsAtMove == InitialDirs \cup AncestorsInc(Dirname(new_path))

\* C15: after a successful move the pruning goes upward from the original
\* parent of the file: the parent and every directory above it that the
\* move left empty is deleted, so no empty chain of source directories
\* stays behind.
C15_PrunesUpward ==
    Moved => \A d \in AncestorsInc(Dirname(file_path)) :
                 d \in dirs => ~IsEmptyDir(d, files, dirs)

\* C15, as the code does it: after a successful move the pruning goes
\* downward from the original parent of the file.  Every directory below
\* the parent that holds no file is deleted, then the parent itself if
\* nothing is left in it; nothing else is deleted, so a directory above
\* the parent stays even if it has become empty.
C15_PrunesDownward ==
    Moved => LET old_dir == Dirname(file_path)
             IN /\ dirs \subseteq DirsAtMove
                /\ \A d \in dirs : Under(d, old_dir) => ~IsEmptyDir(d, files, dirs)
                /\ \A d \in DirsAtMove \ dirs :
                       /\ Under(d, old_dir)
                       /\ \A f \in DOMAIN files : ~Under(f, d)

\* the empty folder beside the download and the parent of the download
\* are gone, the folder above them is left empty
C15_Witness ==
    /\ Moved
    /\ file_path = "/Video/sc/Film/Avatar (2009).mp4"
    /\ "/Video/sc/Film/extras" \notin dirs
    /\ "/Video/sc/Film" \notin dirs
    /\ "/Video/sc" \in dirs
    /\ IsEmptyDir("/Video/sc", files, dirs)

\* the classification asked the catalog and one of its calls raised
CatalogAsked == pc = "classified" /\ answers # NoAnswers
CatalogRaised == CatalogAsked /\ "exc" \in {answers.movie.st, answers.tv.st, answers.detail, answers.kw}
\* of the two top hits the series wins only with the higher popularity
TvWins ==
    IF IsHit(answers.movie) /\ IsHit(answers.tv) THEN answers.tv.pop > answers.movie.pop
    ELSE IsHit(answers.tv)
\* what the classification gives when the catalog finds nothing at all
HeuristicType ==
    DetermineMediaType(PathSignals(cfg, file_path),
        [movie |-> QuietSearch, tv |-> QuietSearch, detail |-> "plain", kw |-> "plain",
         rescue |-> QuietSearch]).mt

C18_TaxonomyKept == TaxonomyDirs \subseteq dirs

\* a movie to which the classification bound no catalog id
MovieUnbound == ~media_type.is_series /\ ~IdBound
\* the title the extraction gave, before any enrichment
ExtractedTitle == ExtractFileInfo(file_path, media_type).title
FirstWords(title, n) ==
    JoinWith(SubSeq(Words(title), 1, IF Len(Words(title)) < n THEN Len(Words(title)) ELSE n), " ")
\* the four queries of the claim for the current title and year
ClaimedQueries ==
    <<WithYear(file_info.title, file_info.year),
      WithYear(SearchTitle(file_info.title), file_info.year),
      SearchTitle(file_info.title),
      FirstWords(file_info.title, 3)>>
FallbackAnswers == <<answers.s1, answers.s2, answers.s3, answers.s4>>
\* rank of the first strategy with a result, 5 when there is none
FirstHit ==
    IF \E i \in 1..4 : IsHit(FallbackAnswers[i])
    THEN CHOOSE i \in 1..4 : IsHit(FallbackAnswers[i]) /\ \A j \in 1..(i - 1) : ~IsHit(FallbackAnswers[j])
    ELSE 5
\* the strategies run in the order of the claim up to the first result,
\* whose top hit gives the id
StrategiesInOrder ==
    LET n == IF FirstHit > 4 THEN 4 ELSE FirstHit
    IN /\ Len(requests) = n
       /\ \A i \in 1..n : requests[i] = Request("search/movie", ClaimedQueries[i])
       /\ FirstHit <= 4 => file_info.tmdb_id = FallbackAnswers[FirstHit].id

\* C19: the movie searches issued for a movie without a bound catalog id
\* are, in this order, (1) title and year, (2) title without punctuation
\* and year, (3) title without punctuation, (4) the first three words of
\* the title; a strategy that raises or finds nothing is followed by the
\* next, no search follows the first result and the id of its top hit is
\* bound.  In particular the first search issued for the file is (1).
C19_FourStrategiesFromTheStart ==
    /\ (pc = "searched" /\ MovieUnbound /\ answers # NoAnswers /\ NotEnriched)
          => requests[1] = Request("search/movie", ClaimedQueries[1])
    /\ (pc = "enriched" /\ MovieUnbound) => StrategiesInOrder

\* C19, as the code does it: for a movie without a bound catalog id the
\* call first issues one movie search with the title without punctuation
\* (search_and_enrich_with_tmdb); only when that step fails do the four
\* strategies follow, in the order (1) title and year, (2) title without
\* punctuation and year, (3) title without punctuation, (4) first three
\* words.  Among the four, a strategy that raises or finds nothing is
\* followed by the next, no search follows the first result and the id of
\* its top hit is bound.
C19_OneSearchThenFourStrategies ==
    /\ (pc = "searched" /\ MovieUnbound /\ answers # NoAnswers)
          => /\ requests[1] = Request("search/movie", SearchTitle(ExtractedTitle))
             /\ \A i \in 2..Len(requests) : ~IsSearch(requests[i])
    /\ (pc = "enriched" /\ MovieUnbound) => (~tmdb_success /\ StrategiesInOrder)

\* four different queries; the first finds nothing, the second raises,
\* the third has a result
C19_Witness ==
    /\ pc = "enriched"
    /\ MovieUnbound
    /\ file_path = "/Video/Film/Avatar (2009)/Avatar (2009) {tmdb-1}.mp4"
    /\ Cardinality({ClaimedQueries[i] : i \in 1..4}) = 4
    /\ answers.s1.st = "empty"
    /\ answers.s2.st = "exc"
    /\ IsHit(answers.s3)
    /\ Len(requests) = 3
    /\ file_info.tmdb_id = answers.s3.id

\* a series to which the classification bound no catalog id
SeriesUnbound == media_type.is_series /\ ~IdBound
SearchesOf(reqs) == {i \in 1..Len(reqs) : IsSearch(reqs[i])}
\* the title without language tags, its separators turned into blanks
NormalizedTitle ==
    Strip(CollapseSpaces(Replace(Replace(RemoveLangTags(file_info.title), "-", " "), "_", " ")))

\* C20: for a series without a bound catalog id exactly one series search
\* is issued for the file, and for an anime series its query is the
\* normalized title followed by the word "anime".
C20_OneSeriesSearch ==
    /\ (pc = "searched" /\ SeriesUnbound /\ answers # NoAnswers)
          => /\ SearchesOf(requests) = {1}
             /\ media_type.is_anime => EndsWith(requests[1].q, " anime")
    /\ (pc = "enriched" /\ SeriesUnbound) => SearchesOf(requests) = {}

\* C20, as the code does it: for a series without a bound catalog id the
\* call issues one series search with the title without punctuation and
\* without qualifier (search_and_enrich_with_tmdb); only when that step
\* fails does one more series search follow, whose query is the normalized
\* title, followed by the word "anime" for an anime series.
C20_OneSeriesSearchPerStep ==
    /\ (pc = "searched" /\ SeriesUnbound /\ answers # NoAnswers)
          => /\ SearchesOf(requests) = {1}
             /\ requests[1] = Request("search/tv", SearchTitle(ExtractedTitle))
    /\ (pc = "enriched" /\ SeriesUnbound)
          => /\ ~tmdb_success
             /\ SearchesOf(requests) = {1}
             /\ requests[1] = Request("search/tv",
                                  IF media_type.is_anime THEN NormalizedTitle \o " anime"
                                  ELSE NormalizedTitle)

\* the second search of an anime series
C20_Witness ==
    /\ pc = "enriched"
    /\ SeriesUnbound
    /\ file_path = "/Video/Anime/Serie/One Piece/One.Piece.E1001.ita.mp4"
    /\ media_type.type = "anime_series"
    /\ requests[1] = Request("search/tv", "One Piece anime")

\* the two searches of the classification answered without an exception
SearchesAnswered == CatalogAsked /\ "exc" \notin {answers.movie.st, answers.tv.st}
BothHit == IsHit(answers.movie) /\ IsHit(answers.tv)
\* the detail request that follows the two searches names the chosen type
DetailRequested(kind, id) ==
    Len(requests) >= 3 /\ requests[3] = Request(kind \o IntToStr(id), "")

\* C21: in the classification by catalog, when the movie search and the
\* series search both have hits, the type whose top hit has the higher
\* popularity is chosen (its detail record is the one requested and, when
\* no later call fails, it is the classification, with the id of that hit);
\* when only one of the two searches has hits, that type is chosen.
C21_MorePopularTypeChosen ==
    SearchesAnswered
        => /\ (BothHit /\ answers.tv.pop > answers.movie.pop)
                 => /\ DetailRequested("tv/", answers.tv.id)
                    /\ ~CatalogRaised => (media_type.is_series
                                             /\ media_type.tmdb_id = answers.tv.id)
           /\ (BothHit /\ answers.movie.pop > answers.tv.pop)
                 => /\ DetailRequested("movie/", answers.movie.id)
                    /\ ~CatalogRaised => (~media_type.is_series
                                             /\ media_type.tmdb_id = answers.movie.id)
           /\ (IsHit(answers.tv) /\ ~IsHit(answers.movie))
                 => /\ DetailRequested("tv/", answers.tv.id)
                    /\ ~CatalogRaised => (media_type.is_series
                                             /\ media_type.tmdb_id = answers.tv.id)
           /\ (IsHit(answers.movie) /\ ~IsHit(answers.tv))
                 => /\ DetailRequested("movie/", answers.movie.id)
                    /\ ~CatalogRaised => (~media_type.is_series
                                             /\ media_type.tmdb_id = answers.movie.id)

\* both searches had a hit, the series hit was the more popular one and the
\* file became a series with the id of that hit
C21_Witness ==
    /\ SearchesAnswered
    /\ ~CatalogRaised
    /\ BothHit
    /\ answers.tv.pop > answers.movie.pop
    /\ answers.tv.id # answers.movie.id
    /\ media_type.is_series
    /\ media_type.tmdb_id = answers.tv.id

\* the classification asked the catalog and no search of it had a hit
CatalogFoundNothing ==
    /\ CatalogAsked
    /\ ~IsHit(answers.movie) /\ ~IsHit(answers.tv) /\ ~IsHit(answers.rescue)

\* C22: a file whose separator-stripped name contains a known anime-movie
\* name is classified anime_movie; when the catalog step produced no hit, a
\* file whose separator-stripped name contains a known anime-series name
\* and no known anime-movie name is classified anime_series, whether or
\* not its path or name carries a series cue.
C22_KnownNamesFirst ==
    /\ (pc = "classified" /\ PathSignals(cfg, file_path).is_anime_movie)
          => media_type.type = "anime_movie"
    /\ (CatalogFoundNothing /\ PathSignals(cfg, file_path).is_anime_series
           /\ ~PathSignals(cfg, file_path).is_anime_movie)
          => media_type.type = "anime_series"

\* the name of the directory that holds the file
ParentDir == Basename(Dirname(file_path))
\* a series that is not an anime, in a directory that is not a placeholder
PlainSeriesInNamedDir ==
    /\ pc = "extracted"
    /\ media_type.type = "series"
    /\ Lower(ParentDir) \notin {"download", "downloads", "temp", "tmp"}
\* the segment after the first segment named Serie or Anime, None without one
SegmentAfterSerie ==
    LET parts == Split(file_path, Sep)
    IN IF SerieIndex(parts) # 0 /\ SerieIndex(parts) < Len(parts)
       THEN parts[SerieIndex(parts) + 1] ELSE None

\* C23: for a series that is not an anime and whose parent directory is
\* not a placeholder name, the extracted title is the path segment that
\* follows the first segment named Serie or Anime, unless that segment is
\* a season marker (S<n>, Season <n>): then the title is the name of the
\* directory that holds the file.
C23_TitleAfterSerieSegment ==
    (PlainSeriesInNamedDir /\ SegmentAfterSerie # None)
        => file_info.title = (IF IsSeasonMarker(SegmentAfterSerie) THEN ParentDir
                              ELSE SegmentAfterSerie)

\* a destination was computed for an episode of an anime series
AnimeSeriesPlaced == Generated /\ media_type.type = "anime_series" /\ new_path # file_path
\* the configured name of the anime folder already says series
AnimeFolderImpliesSeries == Contains(Lower(cfg.anime_folder), "serie")
AnimeSeriesFolder ==
    IF AnimeFolderImpliesSeries THEN PathJoin(cfg.root_path, cfg.anime_folder)
    ELSE PathJoin(PathJoin(cfg.root_path, cfg.anime_folder), "Serie")

\* C24: the category folder of an anime series destination holds no
\* Serie/Serie pair: an anime folder whose configured name already says
\* series is the category folder as it is, and only another anime folder
\* gets a nested Serie segment; no folder of the destination repeats it.
C24_NoSerieSerie ==
    AnimeSeriesPlaced
        => /\ Under(new_path, AnimeSeriesFolder)
           /\ ~Contains(Lower(AnimeSeriesFolder), "serie/serie")
           /\ AnimeFolderImpliesSeries
                 => ~Under(new_path, PathJoin(PathJoin(cfg.root_path, cfg.anime_folder), "Serie"))
           /\ ~Contains(Lower(Dirname(new_path)), "serie/serie")

\* an episode placed under an anime folder named Anime/Serie
C24_Witness ==
    /\ AnimeSeriesPlaced
    /\ cfg.anime_folder = "Anime/Serie"
    /\ Dirname(Dirname(Dirname(new_path))) = "/Video/Anime/Serie"

\* a destination was asked for an episode whose number the extraction found
EpisodeResolved == Generated /\ media_type.is_series /\ file_info.episode # NoneInt
\* the parts of the series shape: Title[ (Year)], Season N, and the file name
\* Title - sNNeMM[ - EpisodeTitle][ {tmdb-ID}].ext
ShapeTitle == CleanTitle(file_info.title, file_info.language)
ShapeSeason == IF file_info.season = NoneInt THEN 1 ELSE file_info.season
ShapeSeriesFolder ==
    PathJoin(DestFolder(cfg, media_type.type, AnimeMovieFolderExists), ShapeTitle)
        \o (IF IsTruthyStr(file_info.year) THEN " (" \o file_info.year \o ")" ELSE "")
ShapeSeasonFolder == PathJoin(ShapeSeriesFolder, "Season " \o IntToStr(ShapeSeason))
ShapeFileName ==
    ShapeTitle \o " - s" \o Format02d(ShapeSeason) \o "e" \o Format02d(file_info.episode)
        \o (IF IsTruthyStr(file_info.episode_title) THEN " - " \o file_info.episode_title ELSE "")
        \o (IF cfg.use_tmdb_ids /\ file_info.tmdb_id # NoId
            THEN " {tmdb-" \o IntToStr(file_info.tmdb_id) \o "}" ELSE "")
        \o SplitExtExt(file_path)

\* C25: for a series file with a resolved episode the generated path is
\* root/Category/Title[ (Year)]/Season N/<file>, where <file> is the one
\* path segment Title - sNNeMM[ - EpisodeTitle][ {tmdb-ID}].ext: the file
\* lies directly in the Season N folder whatever the title, the episode
\* title and the id are; the episode title is there only when the
\* enrichment gave one and the id tag only when use_tmdb_ids is on and an
\* id is bound.
C25_EpisodeFileInSeasonFolder ==
    EpisodeResolved
        => /\ Dirname(new_path) = ShapeSeasonFolder
           /\ Basename(new_path) = ShapeFileName

\* C27: for a series file whose episode is resolved and whose season is
\* not (a series that is not an anime, without a season marker in its
\* folder or name) the generated path takes season 1: it lies in a folder
\* Season 1 and its file name holds the episode code s01eMM.
C27_SeasonDefaultsToOne ==
    (EpisodeResolved /\ file_info.season = NoneInt)
        => /\ Basename(Dirname(new_path)) = "Season 1"
           /\ Contains(Basename(new_path), " - s01e" \o Format02d(file_info.episode))

\* the attributes the extraction handed to search_and_enrich_with_tmdb
InfoBeforeSearch == TransferId(cfg, ExtractFileInfo(file_path, media_type), media_type)

\* C28: when search_and_enrich_with_tmdb returns False (no title, no
\* search result, no detail record, an exception anywhere, a detail record
\* without an expected field) the file attributes are what they were
\* before the call: no tmdb_id, title or year has been written.
C28_FailedSearchWritesNothing ==
    (pc = "searched" /\ ~tmdb_success) => file_info = InfoBeforeSearch

\* the generator produced a canonical destination for the category
CanonicalProduced == Generated /\ new_path # file_path

\* C29: a file at the path that _generate_plex_path produced for a
\* category is put into the same category by the rule of
\* _determine_media_type on the configured folders, hence without a
\* catalog request, for each of the four categories and for every setting
\* of the category folders.
C29_CanonicalPathKeepsCategory ==
    CanonicalProduced
        => /\ RootPathRule(cfg, NormPath(new_path)) = media_type.type
           /\ \A ans \in ClassifyAnswersFor(PathSignals(cfg, new_path)) :
                 DetermineMediaType(PathSignals(cfg, new_path), ans).reqs = <<>>

\* fix_anime_structure is at work or has returned
Flattening == pc \in {"items", "flattened"}
AnimeSerie == PathJoin(ANIME_FOLDER, "Serie")
\* the place in Anime/Serie of an entry of Serie/Serie
Flat(p) ==
    IF Under(p, serie_path) /\ p # serie_path THEN Rebase(p, serie_path, AnimeSerie) ELSE p

\* C26: fix_anime_structure merges or skips and never replaces: every file
\* that was outside Serie/Serie (at the top of Anime/Serie or inside a
\* folder that receives a merge) keeps its place and its content; every
\* file and folder of Serie/Serie is either at its place in Anime/Serie or
\* still where it was, and no file is lost or made twice; Serie/Serie is
\* removed only when nothing is in it, so no entry is left without its
\* directory.
C26_MergeOrSkip ==
    Flattening
        => /\ \A p \in DOMAIN before.files :
                 /\ \E q \in {p, Flat(p)} : q \in DOMAIN files /\ files[q] = p
                 /\ ~Under(p, serie_path) => (p \in DOMAIN files /\ files[p] = p)
           /\ \A q \in DOMAIN files :
                 files[q] \in DOMAIN before.files /\ q \in {files[q], Flat(files[q])}
           /\ \A d \in before.dirs :
                 /\ d # serie_path => (d \in dirs \/ Flat(d) \in dirs)
                 /\ ~Under(d, serie_path) => d \in dirs
           /\ \A d \in dirs : \E b \in before.dirs : d \in {b, Flat(b)}
           /\ DOMAIN files \cap dirs = {}
           /\ \A x \in DOMAIN files \cup dirs : Dirname(x) \in dirs \cup {"/mnt", "/"}
           /\ (serie_path \in before.dirs /\ serie_path \notin dirs)
                 => /\ pc = "flattened"
                    /\ \A p \in DOMAIN before.files : p \in DOMAIN files => ~Under(p, serie_path)

\* the script has merged Serie/Serie/Naruto into Anime/Serie/Naruto: the
\* season folder went over, the episode that has a namesake stayed, and
\* Serie/Serie, not being empty, is still there
C26_Witness ==
    /\ pc = "flattened"
    /\ PathJoin(AnimeSerie, "Naruto/ep1.mp4") \in DOMAIN before.files
    /\ PathJoin(serie_path, "Naruto/ep1.mp4") \in DOMAIN files
    /\ PathJoin(AnimeSerie, "Naruto/S1/ep2.mp4") \in DOMAIN files
    /\ files[PathJoin(AnimeSerie, "Naruto/S1/ep2.mp4")] = PathJoin(serie_path, "Naruto/S1/ep2.mp4")
    /\ files[PathJoin(AnimeSerie, "Naruto/ep1.mp4")] = PathJoin(AnimeSerie, "Naruto/ep1.mp4")
    /\ serie_path \in dirs

\* the step in which process_downloaded_file moves the file and prunes
MovesAndPrunes ==
    pc = "generated" /\ pc' = "done" /\ fault' = "none" /\ new_path # file_path
\* the step in which the script prunes the folders the renaming left
ScriptPrunes == pc = "flattened" /\ pc' = "fixed"
\* no file is below a directory that is gone, and each file has its directories
KeptWhatHoldsFiles(ds_before, fl_after, ds_after) ==
    /\ \A f \in DOMAIN fl_after : AncestorsInc(Dirname(f)) \subseteq ds_after
    /\ \A d \in ds_before \ ds_after : \A f \in DOMAIN fl_after : ~Under(f, d)

\* C30: the pruning of empty folders deletes no file and no directory that
\* holds a file at any depth: the files after the step are those the move
\* left (for the script: those there were), each at its path with its
\* content, and every directory that is gone had no file in its subtree.
C30_PruningKeepsFiles ==
    [][/\ MovesAndPrunes
           => /\ files' = MoveFiles(file_path, new_path, files,
                                    Makedirs(Dirname(new_path), dirs))
              /\ KeptWhatHoldsFiles(Makedirs(Dirname(new_path), dirs), files', dirs')
       /\ ScriptPrunes
           => /\ files' = files
              /\ KeptWhatHoldsFiles(dirs, files', dirs')]_vars

\* the download outside the library was moved into it and its folder,
\* left empty, was removed, while the file is at its new place
C30_Witness ==
    /\ Moved
    /\ file_path = "/dl/Avatar (2009).mp4"
    /\ "/dl" \notin dirs
    /\ new_path \in DOMAIN files
    /\ files[new_path] = InitialContent[file_path]
    /\ Dirname(new_path) \in dirs

====
